---------------------------- MODULE Spec2Model ----------------------------
(***************************************************************************)
(* Model of the anomaly and risk-scoring engine of billmind-backend        *)
(* (src/anomaly.py, class BillAnomalyDetector) and of the process-wide     *)
(* detector instance it creates.                                           *)
(*                                                                         *)
(* Python values are encoded as triples <<tag, integer, characters>> so    *)
(* that values of different Python types can be compared:                  *)
(*   a missing dictionary key, None, an int, a str (a sequence of          *)
(*   one-character strings).                                               *)
(* Amounts are integers.  Scores and confidences are integers in           *)
(* hundredths of the Python float (score -0.45 is -45, confidence 45.0%    *)
(* is 45).                                                                 *)
(***************************************************************************)
EXTENDS Integers, Sequences, FiniteSets, TLC

(***************************************************************************)
(* Bounds of the model.                                                    *)
(***************************************************************************)
\* number of instants of the wall clock (datetime.now()) a run goes through
MaxTicks == 2
\* number of requests the server processes in a run
MaxRequests == 2

(***************************************************************************)
(* Python values.                                                          *)
(***************************************************************************)
Absent == <<"absent", 0, <<>>>>
PyNone == <<"none", 0, <<>>>>
PyInt(n) == <<"int", n, <<>>>>
PyStr(s) == <<"str", 0, s>>
\* a list, of the 'total' of the line items it holds
PyList(items) == <<"list", 0, items>>

IsInt(v) == v[1] = "int"
IsStr(v) == v[1] = "str"

\* dict.get(key, default): the default only replaces a missing key
Get(d, key, default) == IF d[key] = Absent THEN default ELSE d[key]

\* Python truth value of None, an int or a str
Truthy(v) ==
  CASE v[1] = "none" -> FALSE
    [] v[1] = "int" -> v[2] # 0
    [] v[1] = "str" -> v[3] # <<>>
    [] v[1] = "list" -> v[3] # <<>>
    [] OTHER -> FALSE

\* str.strip(): drop leading and trailing blanks
RECURSIVE LStrip(_)
LStrip(s) == IF s # <<>> /\ Head(s) = " " THEN LStrip(Tail(s)) ELSE s

RECURSIVE RStrip(_)
RStrip(s) ==
  IF s # <<>> /\ s[Len(s)] = " " THEN RStrip(SubSeq(s, 1, Len(s) - 1)) ELSE s

Strip(s) == RStrip(LStrip(s))

\* str.lower(): an upper-case letter becomes its lower-case letter, every
\* other character stays
UpperLetters ==
  <<"A", "B", "C", "D", "E", "F", "G", "H", "I", "J", "K", "L", "M",
    "N", "O", "P", "Q", "R", "S", "T", "U", "V", "W", "X", "Y", "Z">>

LowerLetters ==
  <<"a", "b", "c", "d", "e", "f", "g", "h", "i", "j", "k", "l", "m",
    "n", "o", "p", "q", "r", "s", "t", "u", "v", "w", "x", "y", "z">>

LowerChar(c) ==
  IF \E i \in 1..Len(UpperLetters) : UpperLetters[i] = c
  THEN LowerLetters[CHOOSE i \in 1..Len(UpperLetters) : UpperLetters[i] = c]
  ELSE c

Lower(s) == [i \in 1..Len(s) |-> LowerChar(s[i])]

\* str.upper()
UpperChar(c) ==
  IF \E i \in 1..Len(LowerLetters) : LowerLetters[i] = c
  THEN UpperLetters[CHOOSE i \in 1..Len(LowerLetters) : LowerLetters[i] = c]
  ELSE c

Upper(s) == [i \in 1..Len(s) |-> UpperChar(s[i])]

(***************************************************************************)
(* datetime.strptime(s, '%Y-%m-%d') and the comparison with now.           *)
(* A datetime is <<year, month, day, time of day>>; strptime gives time of *)
(* day 0.                                                                  *)
(***************************************************************************)
Digits == <<"0", "1", "2", "3", "4", "5", "6", "7", "8", "9">>

IsDigit(c) == \E i \in 1..10 : Digits[i] = c

DigitVal(c) == (CHOOSE i \in 1..10 : Digits[i] = c) - 1

RECURSIVE Number(_)
Number(s) ==
  IF s = <<>> THEN 0
  ELSE 10 * Number(SubSeq(s, 1, Len(s) - 1)) + DigitVal(s[Len(s)])

AllDigits(s) == \A i \in 1..Len(s) : IsDigit(s[i])

DashPositions(s) == {i \in 1..Len(s) : s[i] = "-"}

IsLeap(y) == (y % 4 = 0 /\ y % 100 # 0) \/ y % 400 = 0

DaysInMonth(y, m) ==
  CASE m \in {4, 6, 9, 11} -> 30
    [] m = 2 -> IF IsLeap(y) THEN 29 ELSE 28
    [] OTHER -> 31

\* the fields '%Y-%m-%d' cuts s into, or <<>> when s does not have the shape
DateFields(s) ==
  IF Cardinality(DashPositions(s)) # 2 THEN <<>>
  ELSE LET p1 == CHOOSE i \in DashPositions(s) :
                   \A j \in DashPositions(s) : i <= j
           p2 == CHOOSE i \in DashPositions(s) :
                   \A j \in DashPositions(s) : i >= j
           ys == SubSeq(s, 1, p1 - 1)
           ms == SubSeq(s, p1 + 1, p2 - 1)
           ds0 == SubSeq(s, p2 + 1, Len(s))
           \* %d also accepts a blank followed by one digit
           ds == IF Len(ds0) = 2 /\ ds0[1] = " " THEN Tail(ds0) ELSE ds0
       IN IF /\ Len(ys) = 4 /\ AllDigits(ys)
             /\ Len(ms) \in {1, 2} /\ AllDigits(ms)
             /\ Len(ds) \in {1, 2} /\ AllDigits(ds)
             /\ ~(Len(ds0) = 2 /\ ds0[1] = " " /\ ds[1] = "0")
          THEN <<Number(ys), Number(ms), Number(ds)>>
          ELSE <<>>

\* [ok |-> strptime returned, at |-> the datetime]
Strptime(v) ==
  LET f == IF IsStr(v) THEN DateFields(v[3]) ELSE <<>>
  IN IF /\ f # <<>>
        /\ f[1] >= 1
        /\ f[2] \in 1..12
        /\ f[3] >= 1
        /\ f[3] <= DaysInMonth(f[1], f[2])
     THEN [ok |-> TRUE, at |-> <<f[1], f[2], f[3], 0>>]
     ELSE [ok |-> FALSE, at |-> <<0, 0, 0, 0>>]

\* the comparison the other way round: a > b
DateTimeLess_Reversed(a, b) ==
  \/ a[1] > b[1]
  \/ a[1] = b[1] /\ a[2] > b[2]
  \/ a[1] = b[1] /\ a[2] = b[2] /\ a[3] > b[3]
  \/ a[1] = b[1] /\ a[2] = b[2] /\ a[3] = b[3] /\ a[4] > b[4]

\* a < b on datetimes
DateTimeLess(a, b) ==
  \/ a[1] < b[1]
  \/ a[1] = b[1] /\ a[2] < b[2]
  \/ a[1] = b[1] /\ a[2] = b[2] /\ a[3] < b[3]
  \/ a[1] = b[1] /\ a[2] = b[2] /\ a[3] = b[3] /\ a[4] < b[4]

\* datetime.now() at the i-th instant of the run: some time after midnight
\* of 14 June 2024 and of the days that follow
ClockAt(i) == <<2024, 6, 13 + i, 1>>

Min(a, b) == IF a < b THEN a ELSE b
Max(a, b) == IF a > b THEN a ELSE b
Abs(a) == IF a < 0 THEN -a ELSE a


(***************************************************************************)
(* The isolation forest (sklearn.ensemble.IsolationForest) is a library.   *)
(* With random_state=42 a fitted forest is a function of its training data *)
(* (the <<total_amount, tax_amount>> rows): the model keeps the data as    *)
(* the value of a fitted forest.  What predict and score_samples answer is *)
(* not in the repository; each run fixes one of the behaviours below.      *)
(***************************************************************************)
NoModel == <<"none", <<>>>>
Unfitted == <<"unfitted", <<>>>>
Fitted(data) == <<"fitted", data>>

IsFitted(m) == m[1] = "fitted"

RECURSIVE MaxAmount(_)
MaxAmount(data) ==
  IF data = <<>> THEN 0 ELSE Max(data[1][1], MaxAmount(Tail(data)))

\* k: a point is an outlier when its amount exceeds k times the largest
\* training amount; inl, outl: score_samples of inliers and of outliers
ForestBehaviours ==
  { [k |-> 1, inl |-> -40, outl |-> -75],
    [k |-> 1000, inl |-> -45, outl |-> -60],
    [k |-> 0, inl |-> -50, outl |-> -130] }

IsOutlier(fb, data, x) == x[1] > fb.k * MaxAmount(data)

\* self.model.predict(data)[0]: -1 for an outlier, 1 for an inlier
Predict(fb, data, x) == IF IsOutlier(fb, data, x) THEN -1 ELSE 1

\* self.model.score_samples(data)[0]
ScoreSamples(fb, data, x) == IF IsOutlier(fb, data, x) THEN fb.outl ELSE fb.inl

(***************************************************************************)
(* check_ml_anomaly.  self.model is read three times (lines 94, 99, 100):  *)
(* m94, m99 and m100 are the values read.  Everything after the None test  *)
(* is inside try/except, so that a failure gives (False, 0.0): predict and *)
(* score_samples raise on a forest that is not fitted and on a row that is *)
(* not numeric.                                                            *)
(***************************************************************************)
\* the confidence without the clamp of line 105
Confidence_Unclamped(score) == Abs(score)

Confidence(score) == Min(Max(Abs(score), 0), 100)

MlDefault == [is_anomaly |-> FALSE, confidence |-> 0]

\* check_ml_anomaly that flags every bill when there is no model
check_ml_anomaly_FailClosed(m94, m99, m100, fb, amount, tax) ==
  IF m94 = NoModel THEN [is_anomaly |-> TRUE, confidence |-> 100]
  ELSE IF ~IsInt(amount) \/ ~IsInt(tax) THEN MlDefault
  ELSE IF ~IsFitted(m99) \/ ~IsFitted(m100) THEN MlDefault
  ELSE LET x == <<amount[2], tax[2]>>
           prediction == Predict(fb, m99[2], x)
           score == ScoreSamples(fb, m100[2], x)
       IN [is_anomaly |-> (prediction = -1), confidence |-> Confidence(score)]

check_ml_anomaly(m94, m99, m100, fb, amount, tax) ==
  IF m94 = NoModel THEN MlDefault
  ELSE IF ~IsInt(amount) \/ ~IsInt(tax) THEN MlDefault
  ELSE IF ~IsFitted(m99) \/ ~IsFitted(m100) THEN MlDefault
  ELSE LET x == <<amount[2], tax[2]>>
           prediction == Predict(fb, m99[2], x)
           score == ScoreSamples(fb, m100[2], x)
       IN [is_anomaly |-> (prediction = -1), confidence |-> Confidence(score)]

(***************************************************************************)
(* check_rules.  A comparison of None or of a str with a number raises     *)
(* TypeError, .strip() of a truthy value that is not a str raises          *)
(* AttributeError; only the due_date block is inside try/except.           *)
(*                                                                         *)
(* total_amount * 0.35 is a product of IEEE-754 doubles.  The double 0.35  *)
(* is 0.35 - 0.2 * 2^-53, so that for an integer t the exact product is    *)
(* 0.35*t - 0.2*t*2^-53.  Compared with an integer tax, the rounding of    *)
(* the product matters only when 0.35*t is an integer, t = 20*k: the       *)
(* product lies 4*k*2^-53 below 7*k and is rounded to 7*k unless that      *)
(* distance is more than half the spacing 2^(e-52) of the doubles below    *)
(* 7*k, where 2^e <= 7*k < 2^(e+1).  In that case the product is the       *)
(* double just below 7*k (180 * 0.35 is 62.99999999999999).                *)
(***************************************************************************)
RECURSIVE Log2(_)
Log2(n) == IF n < 2 THEN 0 ELSE 1 + Log2(n \div 2)

RECURSIVE Pow2(_)
Pow2(e) == IF e = 0 THEN 1 ELSE 2 * Pow2(e - 1)

\* total_amount * 0.35 is rounded to a double below the exact 35%
RoundsBelow(total_amount) ==
  /\ total_amount > 0
  /\ total_amount % 20 = 0
  /\ LET k == total_amount \div 20
     IN 4 * k > Pow2(Log2(7 * k))

\* tax_amount > (total_amount * 0.35), for integers
ExceedsShare(tax_amount, total_amount) ==
  IF RoundsBelow(total_amount)
  THEN tax_amount * 100 >= total_amount * 35
  ELSE tax_amount * 100 > total_amount * 35

\* check_rules without the try/except around the due_date block
check_rules_ParseErrorPropagates(bill, now) ==
  LET total_amount == Get(bill, "total_amount", PyInt(0))
      tax0 == Get(bill, "tax_amount", PyInt(0))
      tax_amount == IF Truthy(tax0) THEN tax0 ELSE PyInt(0)
      vendor_name == Get(bill, "vendor_name", PyStr(<<>>))
      invoice_number == Get(bill, "invoice_number", PyNone)
      due_date == Get(bill, "due_date", PyNone)
      parsed == Strptime(due_date)
      raises == \/ ~IsInt(total_amount)
                \/ total_amount[2] > 0 /\ ~IsInt(tax_amount)
                \/ Truthy(due_date) /\ ~parsed.ok
                \/ Truthy(vendor_name) /\ ~IsStr(vendor_name)
      high == IF total_amount[2] > 50000
              THEN <<"Amount unusually high">> ELSE <<>>
      taxRatio == IF /\ total_amount[2] > 0
                     /\ ExceedsShare(tax_amount[2], total_amount[2])
                  THEN <<"Tax exceeds 35% of total">> ELSE <<>>
      overdue == IF /\ Truthy(due_date)
                    /\ parsed.ok
                    /\ DateTimeLess(parsed.at, now)
                 THEN <<"Bill is overdue">> ELSE <<>>
      vendor == IF ~Truthy(vendor_name) \/ Strip(vendor_name[3]) = <<>>
                THEN <<"Vendor name missing">> ELSE <<>>
      invalid == IF total_amount[2] <= 0 THEN <<"Invalid amount">> ELSE <<>>
      invoice == IF ~Truthy(invoice_number)
                 THEN <<"Missing invoice number">> ELSE <<>>
  IN IF raises THEN [raised |-> TRUE, violations |-> <<>>]
     ELSE [raised |-> FALSE,
           violations |->
             high \o taxRatio \o overdue \o vendor \o invalid \o invoice]

check_rules(bill, now) ==
  LET total_amount == Get(bill, "total_amount", PyInt(0))
      tax0 == Get(bill, "tax_amount", PyInt(0))
      tax_amount == IF Truthy(tax0) THEN tax0 ELSE PyInt(0)
      vendor_name == Get(bill, "vendor_name", PyStr(<<>>))
      invoice_number == Get(bill, "invoice_number", PyNone)
      due_date == Get(bill, "due_date", PyNone)
      raises == \/ ~IsInt(total_amount)
                \/ total_amount[2] > 0 /\ ~IsInt(tax_amount)
                \/ Truthy(vendor_name) /\ ~IsStr(vendor_name)
      parsed == Strptime(due_date)
      high == IF total_amount[2] > 50000
              THEN <<"Amount unusually high">> ELSE <<>>
      taxRatio == IF /\ total_amount[2] > 0
                     /\ ExceedsShare(tax_amount[2], total_amount[2])
                  THEN <<"Tax exceeds 35% of total">> ELSE <<>>
      overdue == IF /\ Truthy(due_date)
                    /\ parsed.ok
                    /\ DateTimeLess(parsed.at, now)
                 THEN <<"Bill is overdue">> ELSE <<>>
      vendor == IF ~Truthy(vendor_name) \/ Strip(vendor_name[3]) = <<>>
                THEN <<"Vendor name missing">> ELSE <<>>
      invalid == IF total_amount[2] <= 0 THEN <<"Invalid amount">> ELSE <<>>
      invoice == IF ~Truthy(invoice_number)
                 THEN <<"Missing invoice number">> ELSE <<>>
  IN IF raises THEN [raised |-> TRUE, violations |-> <<>>]
     ELSE [raised |-> FALSE,
           violations |->
             high \o taxRatio \o overdue \o vendor \o invalid \o invoice]

(***************************************************************************)
(* check_duplicate.  .strip() of a vendor_name that is present but not a   *)
(* str raises AttributeError, for the candidate and for every record the   *)
(* scan reaches; the scan stops at the first match.                        *)
(***************************************************************************)
\* the key of a vendor without .lower()
VendorKey_CaseSensitive(rec) ==
  Strip(Get(rec, "vendor_name", PyStr(<<>>))[3])

VendorKey(rec) == Lower(Strip(Get(rec, "vendor_name", PyStr(<<>>))[3]))

VendorRaises(rec) == ~IsStr(Get(rec, "vendor_name", PyStr(<<>>)))

\* the for loop without the comparison of the dates
RECURSIVE ScanBills_IgnoresDate(_, _, _, _)
ScanBills_IgnoresDate(all_bills, vendor, amount, date) ==
  IF all_bills = <<>> THEN "none"
  ELSE LET existing_bill == Head(all_bills)
       IN IF VendorRaises(existing_bill) THEN "raised"
          ELSE IF /\ VendorKey(existing_bill) = vendor
                  /\ Get(existing_bill, "total_amount", PyInt(0)) = amount
               THEN "dup"
               ELSE ScanBills_IgnoresDate(Tail(all_bills), vendor, amount,
                                          date)

\* the for loop over all_bills: "dup", "none" or "raised"
RECURSIVE ScanBills(_, _, _, _)
ScanBills(all_bills, vendor, amount, date) ==
  IF all_bills = <<>> THEN "none"
  ELSE LET existing_bill == Head(all_bills)
       IN IF VendorRaises(existing_bill) THEN "raised"
          ELSE IF /\ VendorKey(existing_bill) = vendor
                  /\ Get(existing_bill, "total_amount", PyInt(0)) = amount
                  /\ Get(existing_bill, "bill_date", PyStr(<<>>)) = date
               THEN "dup"
               ELSE ScanBills(Tail(all_bills), vendor, amount, date)

check_duplicate(bill, all_bills) ==
  IF VendorRaises(bill) THEN [raised |-> TRUE, dup |-> FALSE]
  ELSE LET vendor == VendorKey(bill)
           amount == Get(bill, "total_amount", PyInt(0))
           date == Get(bill, "bill_date", PyStr(<<>>))
       IN IF vendor = <<>> \/ ~Truthy(date)
          THEN [raised |-> FALSE, dup |-> FALSE]
          ELSE LET scan == ScanBills(all_bills, vendor, amount, date)
               IN [raised |-> (scan = "raised"), dup |-> (scan = "dup")]

(***************************************************************************)
(* full_check: the three signals, the risk score and the recommendation.   *)
(***************************************************************************)
\* RiskScore without the cap of 40 on the penalty of the violations
RiskScore_UncappedPenalty(is_ml_anomaly, rule_violations, is_duplicate) ==
  LET ml == IF is_ml_anomaly THEN 40 ELSE 0
      violation_penalty == Len(rule_violations) * 20
      dup == IF is_duplicate THEN 30 ELSE 0
  IN Min(ml + violation_penalty + dup, 100)

\* the penalty of the violations with a cap of 60
ViolationPenalty_CapSixty(rule_violations) ==
  Min(Len(rule_violations) * 20, 60)

\* line 218: violation_penalty
ViolationPenalty(rule_violations) == Min(Len(rule_violations) * 20, 40)

RiskScore(is_ml_anomaly, rule_violations, is_duplicate) ==
  LET ml == IF is_ml_anomaly THEN 40 ELSE 0
      violation_penalty == ViolationPenalty(rule_violations)
      dup == IF is_duplicate THEN 30 ELSE 0
  IN Min(ml + violation_penalty + dup, 100)

\* Recommendation with the first threshold inclusive
Recommendation_InclusiveApprove(risk_score) ==
  IF risk_score <= 30 THEN "approve"
  ELSE IF risk_score < 70 THEN "review"
  ELSE "reject"

Recommendation(risk_score) ==
  IF risk_score < 30 THEN "approve"
  ELSE IF risk_score < 70 THEN "review"
  ELSE "reject"

NoReport ==
  [is_anomaly |-> FALSE, is_duplicate |-> FALSE, rule_violations |-> <<>>,
   risk_score |-> 0, recommendation |-> "", ml_confidence |-> 0]

\* full_check that stores the defaulted tax_amount back into the bill
full_check_WritesTaxBack(m94, m99, m100, fb, bill, all_bills, now) ==
  LET total_amount == Get(bill, "total_amount", PyInt(0))
      tax0 == Get(bill, "tax_amount", PyInt(0))
      tax_amount == IF Truthy(tax0) THEN tax0 ELSE PyInt(0)
      ml == check_ml_anomaly(m94, m99, m100, fb, total_amount, tax_amount)
      rules == check_rules(bill, now)
      duplicate == check_duplicate(bill, all_bills)
      risk_score == RiskScore(ml.is_anomaly, rules.violations, duplicate.dup)
      written == [bill EXCEPT !["tax_amount"] = tax_amount]
  IN IF rules.raised \/ duplicate.raised
     THEN [status |-> "raised", report |-> NoReport,
           bill |-> written, all_bills |-> all_bills]
     ELSE [status |-> "returned",
           report |-> [is_anomaly |-> ml.is_anomaly,
                       is_duplicate |-> duplicate.dup,
                       rule_violations |-> rules.violations,
                       risk_score |-> risk_score,
                       recommendation |-> Recommendation(risk_score),
                       ml_confidence |-> ml.confidence],
           bill |-> written, all_bills |-> all_bills]

\* what a call of full_check leaves behind: whether it returned or raised,
\* the report it returned, and its two arguments as they are after the call
full_check(m94, m99, m100, fb, bill, all_bills, now) ==
  LET total_amount == Get(bill, "total_amount", PyInt(0))
      tax0 == Get(bill, "tax_amount", PyInt(0))
      tax_amount == IF Truthy(tax0) THEN tax0 ELSE PyInt(0)
      ml == check_ml_anomaly(m94, m99, m100, fb, total_amount, tax_amount)
      rules == check_rules(bill, now)
      duplicate == check_duplicate(bill, all_bills)
      risk_score == RiskScore(ml.is_anomaly, rules.violations, duplicate.dup)
  IN IF rules.raised \/ duplicate.raised
     THEN [status |-> "raised", report |-> NoReport,
           bill |-> bill, all_bills |-> all_bills]
     ELSE [status |-> "returned",
           report |-> [is_anomaly |-> ml.is_anomaly,
                       is_duplicate |-> duplicate.dup,
                       rule_violations |-> rules.violations,
                       risk_score |-> risk_score,
                       recommendation |-> Recommendation(risk_score),
                       ml_confidence |-> ml.confidence],
           bill |-> bill, all_bills |-> all_bills]


(***************************************************************************)
(* Bill records.  A record has the six keys the detector reads; a key the  *)
(* dictionary does not have is Absent.                                     *)
(***************************************************************************)
Fields ==
  {"total_amount", "tax_amount", "vendor_name", "invoice_number",
   "due_date", "bill_date"}

Date1 == <<"2", "0", "2", "4", "-", "0", "1", "-", "0", "5">>
\* a due date the clock of the model passes
DueSoon == <<"2", "0", "2", "4", "-", "0", "6", "-", "1", "5">>
\* thirteenth month: strptime raises ValueError
BadDate == <<"2", "0", "2", "4", "-", "1", "3", "-", "0", "1">>

Bill(total, tax, vendor, invoice, due, date) ==
  [total_amount |-> total, tax_amount |-> tax, vendor_name |-> vendor,
   invoice_number |-> invoice, due_date |-> due, bill_date |-> date]

\* the bills the parser can hand over: the LLM's JSON may omit a key or
\* give null for it.  tax_amount, invoice_number and bill_date are all
\* null or missing, or all given.
Bills ==
  { Bill(total, rest[1], vendor, rest[2], due, rest[3]) :
      total \in {Absent, PyNone, PyInt(100), PyInt(60000)},
      vendor \in {Absent, PyNone, PyStr(<<" ", "A", "c">>)},
      due \in {Absent, PyStr(DueSoon), PyStr(BadDate)},
      rest \in { <<PyNone, PyNone, Absent>>,
                 <<PyInt(50), PyStr(<<"7">>), PyStr(Date1)>> } }

\* the bills of the runs that are about training and restarts
ProbeBills ==
  { Bill(total, PyInt(50), PyStr(<<" ", "A", "c">>), PyStr(<<"7">>), Absent,
         PyStr(Date1)) : total \in {PyInt(100), PyInt(60000)} }

\* histories handed to full_check: one with a record that matches the
\* bills of amount 100, one whose first record has a null vendor_name and
\* whose second record matches the bills of amount 60000
Histories ==
  { << Bill(PyInt(100), PyInt(10), PyStr(<<"a", "c", " ">>), PyNone, Absent,
            PyStr(Date1)) >>,
    << Bill(PyInt(60000), PyNone, PyNone, PyNone, Absent, PyStr(Date1)),
       Bill(PyInt(60000), PyNone, PyStr(<<"A", "C">>), PyNone, Absent,
            PyStr(Date1)) >> }

(***************************************************************************)
(* pandas: DataFrame(bills_list), fillna, to_csv / read_csv.               *)
(* A frame is [columns, rows]; a cell of an existing column that a record  *)
(* has no key for is NaN.                                                  *)
(***************************************************************************)
NaN == <<"nan", 0, <<>>>>

EmptyFrame == [columns |-> {}, rows |-> <<>>]

Columns(bills_list) ==
  {k \in Fields : \E i \in 1..Len(bills_list) : bills_list[i][k] # Absent}

DataFrame(bills_list) ==
  [columns |-> Columns(bills_list),
   rows |-> [i \in 1..Len(bills_list) |->
               [k \in Fields |->
                  IF k \in Columns(bills_list) /\ bills_list[i][k] = Absent
                  THEN NaN ELSE bills_list[i][k]]]]

\* df['tax_amount'] = df['tax_amount'].fillna(0)
FillnaTax(df) ==
  [df EXCEPT !.rows =
     [i \in 1..Len(df.rows) |->
        [df.rows[i] EXCEPT !["tax_amount"] =
           IF @ \in {NaN, PyNone} THEN PyInt(0) ELSE @]]]

\* df[['total_amount', 'tax_amount']]
TrainingData(df) ==
  [i \in 1..Len(df.rows) |->
     <<df.rows[i]["total_amount"], df.rows[i]["tax_amount"]>>]

\* fit converts the rows to floats and raises when a cell is not a number
FitRaises(training_data) ==
  \E i \in 1..Len(training_data) :
     ~IsInt(training_data[i][1]) \/ ~IsInt(training_data[i][2])

ForestData(training_data) ==
  [i \in 1..Len(training_data) |->
     <<training_data[i][1][2], training_data[i][2][2]>>]

\* to_csv followed by read_csv: None and the empty string come back as NaN
CsvCell(v) == IF v = PyNone \/ v = PyStr(<<>>) THEN NaN ELSE v

CsvRoundTrip(df) ==
  [df EXCEPT !.rows =
     [i \in 1..Len(df.rows) |-> [k \in Fields |-> CsvCell(df.rows[i][k])]]]

\* the two artifacts: no file, a file a failed write left truncated, or a
\* file with a content
NoFile == <<"absent">>
Truncated == <<"truncated">>
FileOf(content) == <<"ok", content>>

TrainRec(total, tax) ==
  Bill(total, tax, PyStr(<<"A", "c">>), Absent, Absent, PyStr(Date1))

CorpusA == << TrainRec(PyInt(100), PyInt(10)), TrainRec(PyInt(300), PyNone) >>
CorpusB == << TrainRec(PyInt(100000), PyInt(50)) >>

\* the lists train is called with: empty, without a total_amount column,
\* without a tax_amount column, two numeric corpora, and one whose amount
\* is not a number
TrainLists ==
  { <<>>,
    << TrainRec(Absent, PyInt(10)) >>,
    << TrainRec(PyInt(100), Absent) >>,
    CorpusA,
    CorpusB,
    << TrainRec(PyStr(<<"A", "c">>), PyInt(10)) >> }

WriteOutcomes == {"ok", "open_fails", "write_fails"}


(***************************************************************************)
(* parser.py: parse_bill asks the language model for the bill as JSON and  *)
(* asks again with a simpler schema when the first attempt fails.  What    *)
(* the model answers is not in the repository: a response is an error of   *)
(* the request, a text that is not JSON, or a JSON value, possibly inside  *)
(* a markdown fence.  A JSON object is a function on the keys of the       *)
(* schema, Absent for a key it does not have.                              *)
(***************************************************************************)
SchemaKeys ==
  {"vendor_name", "vendor_address", "bill_date", "due_date",
   "invoice_number", "total_amount", "subtotal", "tax_amount",
   "discount_amount", "currency", "category", "line_items",
   "payment_status", "payment_method"}

LlmError == [kind |-> "error", fenced |-> FALSE, value |-> <<>>]
NotJson == [kind |-> "text", fenced |-> FALSE, value |-> <<>>]
Json(value, fenced) == [kind |-> "json", fenced |-> fenced, value |-> value]

\* a JSON value that is an object
IsDict(value) == DOMAIN value = SchemaKeys

\* _parse_json_response: strip the fence, json.loads
parse_json_response(response) ==
  IF response.kind = "json"
  THEN [ok |-> TRUE, value |-> response.value]
  ELSE [ok |-> FALSE, value |-> <<>>]

RECURSIVE SumTotals(_)
SumTotals(items) ==
  IF items = <<>> THEN 0 ELSE Get(items[1], "total", PyInt(0))[2]
                              + SumTotals(Tail(items))

\* _validate_and_fix_bill on a dict: the four required fields get a default
\* when the key is missing; a total_amount that is missing, null or 0 is
\* computed from the line items when their sum is positive
validate_and_fix_bill(bill_dict) ==
  LET fixed == [k \in SchemaKeys |->
                  IF bill_dict[k] # Absent THEN bill_dict[k]
                  ELSE CASE k = "vendor_name" ->
                              PyStr(<<"U", "n", "k", "n", "o", "w", "n", " ",
                                      "V", "e", "n", "d", "o", "r">>)
                         [] k = "currency" -> PyStr(<<"U", "S", "D">>)
                         [] k = "category" ->
                              PyStr(<<"o", "t", "h", "e", "r">>)
                         [] k = "total_amount" -> PyInt(0)
                         [] OTHER -> Absent]
      line_items == IF fixed["line_items"] = Absent
                    THEN PyList(<<>>) ELSE fixed["line_items"]
      calculated_total == SumTotals(line_items[3])
  IN IF ~Truthy(fixed["total_amount"]) /\ Truthy(line_items)
        /\ calculated_total > 0
     THEN [fixed EXCEPT !["total_amount"] = PyInt(calculated_total)]
     ELSE fixed

\* the first attempt, lines 60-77: [ok, bill]
FirstAttempt(response) ==
  LET parsed == parse_json_response(response)
  IN IF response.kind = "error" \/ ~parsed.ok \/ ~IsDict(parsed.value)
     THEN [ok |-> FALSE, bill |-> <<>>]
     ELSE [ok |-> TRUE, bill |-> validate_and_fix_bill(parsed.value)]

\* the value setdefault gives a key the fallback response does not have
FallbackDefault(k) ==
  CASE k = "category" -> PyStr(<<"o", "t", "h", "e", "r">>)
    [] k = "line_items" -> PyList(<<>>)
    [] k = "payment_status" ->
         PyStr(<<"u", "n", "k", "n", "o", "w", "n">>)
    [] k \in {"vendor_address", "due_date", "invoice_number", "subtotal",
              "tax_amount", "discount_amount", "payment_method"} -> PyNone
    [] OTHER -> Absent

\* _retry_simple_parse that sets no default
retry_simple_parse_NoDefaults(response) ==
  LET parsed == parse_json_response(response)
  IN IF response.kind = "error" \/ ~parsed.ok \/ ~IsDict(parsed.value)
     THEN [ok |-> FALSE, bill |-> <<>>]
     ELSE [ok |-> TRUE, bill |-> parsed.value]

\* _retry_simple_parse, lines 143-173: [ok, bill]
retry_simple_parse(response) ==
  LET parsed == parse_json_response(response)
  IN IF response.kind = "error" \/ ~parsed.ok \/ ~IsDict(parsed.value)
     THEN [ok |-> FALSE, bill |-> <<>>]
     ELSE [ok |-> TRUE,
           bill |-> [k \in SchemaKeys |->
                       IF parsed.value[k] = Absent
                       THEN FallbackDefault(k) ELSE parsed.value[k]]]

\* parse_bill: configured is config.OPENAI_API_KEY, has_text that raw_text
\* is not blank; first and second are what the language model answers to
\* the first and to the second request.  requests counts the calls of
\* client.chat.completions.create.
parse_bill(configured, has_text, first, second) ==
  IF ~configured \/ ~has_text
  THEN [status |-> "raised", bill |-> <<>>, requests |-> 0,
        fallback |-> FALSE]
  ELSE LET one == FirstAttempt(first)
           two == retry_simple_parse(second)
       IN IF one.ok
          THEN [status |-> "returned", bill |-> one.bill, requests |-> 1,
                fallback |-> FALSE]
          ELSE IF two.ok
          THEN [status |-> "returned", bill |-> two.bill, requests |-> 2,
                fallback |-> TRUE]
          ELSE [status |-> "raised", bill |-> <<>>, requests |-> 2,
                fallback |-> TRUE]

\* strftime('%Y-%m-%d') of a date
TwoDigits(n) == <<Digits[((n \div 10) % 10) + 1], Digits[(n % 10) + 1]>>

FormatDate(at) ==
  TwoDigits(at[1] \div 100) \o TwoDigits(at[1] % 100) \o <<"-">>
    \o TwoDigits(at[2]) \o <<"-">> \o TwoDigits(at[3])

\* datetime.fromisoformat of the texts of the model: a date is ten
\* characters YYYY-MM-DD of a day that exists
FromIsoFormat(v) ==
  IF IsStr(v) /\ Len(v[3]) = 10 /\ v[3][5] = "-" /\ v[3][8] = "-"
  THEN Strptime(v) ELSE [ok |-> FALSE, at |-> <<0, 0, 0, 0>>]

\* lines 199-205 of enrich_bill: a date that parses is written again as
\* YYYY-MM-DD, any other value stays (the exception is logged)
NormalizeDate(v) ==
  IF Truthy(v) /\ FromIsoFormat(v).ok
  THEN PyStr(FormatDate(FromIsoFormat(v).at)) ELSE v

\* enrich_bill: .upper() and .lower() of a value that is not a str raise
\* AttributeError.  The id (a uuid4) is given by the caller.
enrich_bill(bill_dict, id) ==
  LET BadText(k) == Truthy(bill_dict[k]) /\ ~IsStr(bill_dict[k])
      Cased(k, F(_)) ==
        IF Truthy(bill_dict[k]) THEN PyStr(F(bill_dict[k][3]))
        ELSE bill_dict[k]
  IN IF BadText("currency") \/ BadText("category")
        \/ BadText("payment_status")
     THEN [status |-> "raised", bill |-> <<>>, id |-> 0]
     ELSE [status |-> "returned",
           bill |-> [k \in SchemaKeys |->
                       CASE k = "currency" -> Cased(k, Upper)
                         [] k \in {"category", "payment_status"} ->
                              Cased(k, Lower)
                         [] k \in {"bill_date", "due_date"} ->
                              NormalizeDate(bill_dict[k])
                         [] OTHER -> bill_dict[k]],
           id |-> id]

(***************************************************************************)
(* storage.py: the sheet.  save_bill appends a row of cells, get_all_bills *)
(* returns one dict per row, keyed by the headers of the sheet.  Of the 22 *)
(* columns the model keeps the identifier and the six fields the detector  *)
(* reads.                                                                  *)
(***************************************************************************)
BillColumns ==
  [vendor_name |-> "Vendor", bill_date |-> "Bill Date",
   due_date |-> "Due Date", invoice_number |-> "Invoice Number",
   total_amount |-> "Total Amount", tax_amount |-> "Tax"]

Headers == {BillColumns[k] : k \in Fields} \cup {"ID"}

\* bill_dict.get(key, default) as save_bill writes it into the row
RowOf(bill_dict, id) ==
  [h \in Headers |->
     IF h = "ID" THEN PyInt(id)
     ELSE LET k == CHOOSE f \in Fields : BillColumns[f] = h
          IN Get(bill_dict, k,
                 IF k = "total_amount" THEN PyInt(0) ELSE PyStr(<<>>))]

\* a cell as sheet.get_all_records reads it back: an empty cell is '', a
\* text of digits is a number
ReadCell(v) ==
  IF v = PyNone THEN PyStr(<<>>)
  ELSE IF IsStr(v) /\ v[3] # <<>> /\ AllDigits(v[3]) THEN PyInt(Number(v[3]))
  ELSE v

\* lines 133-143 of get_all_bills: the amounts become floats or None
RecordOf(row) ==
  [h \in Headers |->
     LET value == ReadCell(row[h])
     IN IF h \in {"Total Amount", "Tax"}
        THEN (IF IsInt(value) THEN value ELSE PyNone)
        ELSE value]

\* get_all_bills: a failure of the sheet gives the empty list
get_all_bills(rows, outcome) ==
  IF outcome = "ok" THEN [i \in 1..Len(rows) |-> RecordOf(rows[i])]
  ELSE <<>>

\* a dict as the .get calls of the detector see it: a key the dict does
\* not have is Absent
AsBill(d) == [k \in Fields |-> IF k \in DOMAIN d THEN d[k] ELSE Absent]


(***************************************************************************)
(* telegram_notifier.py: which message send_telegram_notification formats  *)
(***************************************************************************)
\* a notifier that alerts only above 70
MessageKind_Above(risk_score) ==
  IF risk_score > 70 THEN "high_risk" ELSE "success"

\* lines 26-32
MessageKind(risk_score) ==
  IF risk_score >= 70 THEN "high_risk" ELSE "success"

(***************************************************************************)
(* ocr.py: the temporary files of extract_text and base64_to_text.  disk   *)
(* is the set of temporary files that exist; every step of the two         *)
(* functions runs before they return, so that they are functions from the  *)
(* disk before to the disk after.                                          *)
(***************************************************************************)
\* lines 106-137: _extract_with_tesseract creates a PNG, converts and
\* reads the image, and unlinks the PNG in finally
extract_with_tesseract(files, name, outcome) ==
  LET created == files \cup {<<"tesseract", name>>}
  IN [disk |-> created \ {<<"tesseract", name>>},
      created |-> {<<"tesseract", name>>},
      status |-> IF outcome = "ok" THEN "returned" ELSE "raised"]

\* lines 23-77: extract_text of the file <<kind, name>>.  is_pdf: the first
\* page is converted to a PNG; conversion, vision, tesseract: the outcomes
\* of the three steps
extract_text(files, kind, name, is_pdf, conversion, vision, tesseract) ==
  IF <<kind, name>> \notin files
  THEN [disk |-> files, created |-> {}, status |-> "raised"]
  ELSE IF is_pdf /\ conversion = "fails"
  THEN [disk |-> files, created |-> {}, status |-> "raised"]
  ELSE LET image == IF is_pdf THEN {<<"page", name>>} ELSE {}
           with_image == files \cup image
           fallback == extract_with_tesseract(with_image, name, tesseract)
       IN IF vision = "ok"
          THEN [disk |-> with_image \ image, created |-> image,
                status |-> "returned"]
          ELSE [disk |-> fallback.disk \ image,
                created |-> image \cup fallback.created,
                status |-> fallback.status]

\* lines 176-209: base64_to_text decodes, writes a PNG, extracts its text
\* and unlinks the PNG in finally; the path is known before the write
base64_to_text(files, name, decoding, vision, tesseract) ==
  IF decoding = "decode_fails"
  THEN [disk |-> files, created |-> {}, status |-> "raised"]
  ELSE LET file == <<"decoded", name>>
           text == extract_text(files \cup {file}, "decoded", name, FALSE,
                                "ok", vision, tesseract)
       IN IF decoding = "write_fails"
          THEN [disk |-> files, created |-> {file}, status |-> "raised"]
          ELSE [disk |-> text.disk \ {file},
                created |-> {file} \cup text.created,
                status |-> text.status]

(***************************************************************************)
(* State.                                                                  *)
(***************************************************************************)
VARIABLES
  model,          \* detector.model: NoModel, Unfitted or Fitted(data)
  bills_history,  \* detector.bills_history: a frame
  pkl,            \* the file anomaly_model.pkl
  csv,            \* the file bills_history.csv
  tick,           \* datetime.now() is ClockAt(tick)
  forest,         \* the behaviour of the library's forests in this run
  last,           \* the call that completed last, with what it left behind
  th,             \* per thread: the call in progress and its locals
  saved,          \* the forest of the last train call whose dump succeeded
  complete,       \* the last value of detector.model that was not Unfitted
  sheet,          \* the rows of the Google sheet below the header row
  outbox,         \* the Telegram messages that have been sent
  disk,           \* the temporary files that exist
  rq              \* the request the server is processing

\* the state of the web application around the detector
pipelineVars == <<sheet, outbox, disk, rq>>

vars ==
  <<model, bills_history, pkl, csv, tick, forest, last, th, saved, complete,
    sheet, outbox, disk, rq>>

Threads == {"t1", "t2"}

Detector ==
  [model |-> model, bills_history |-> bills_history, pkl |-> pkl, csv |-> csv]

(***************************************************************************)
(* train, statement by statement, as functions on the detector state d.    *)
(***************************************************************************)
\* lines 46-56: the list is rejected
Rejected(bills_list) ==
  \/ bills_list = <<>>
  \/ "total_amount" \notin DataFrame(bills_list).columns
  \/ "tax_amount" \notin DataFrame(bills_list).columns

\* lines 52, 58: the frame train works on
TrainFrame(bills_list) == FillnaTax(DataFrame(bills_list))

\* lines 62-66: self.model = IsolationForest(...)
ReplaceModel(d) == [d EXCEPT !.model = Unfitted]

\* line 67: self.model.fit(training_data) fits the object self.model names
FitModel(d, training_data) ==
  [d EXCEPT !.model = Fitted(ForestData(training_data))]

\* DumpModel that drops the forest in memory when the write fails
DumpModel_DropsModel(d, outcome) ==
  CASE outcome = "ok" -> [d EXCEPT !.pkl = FileOf(d.model)]
    [] outcome = "open_fails" -> [d EXCEPT !.model = NoModel]
    [] OTHER -> [d EXCEPT !.pkl = Truncated, !.model = NoModel]

\* lines 69-74: open(..., 'wb') truncates the file, pickle.dump writes
\* self.model; an exception of either is logged
DumpModel(d, outcome) ==
  [d EXCEPT !.pkl = CASE outcome = "ok" -> FileOf(d.model)
                      [] outcome = "open_fails" -> @
                      [] OTHER -> Truncated]

\* SaveHistory that appends the frame to the corpus it already has
SaveHistory_Appends(d, df, outcome) ==
  LET all == [columns |-> d.bills_history.columns \cup df.columns,
              rows |-> d.bills_history.rows \o df.rows]
  IN CASE outcome = "ok" ->
            [d EXCEPT !.csv = FileOf(CsvRoundTrip(all)), !.bills_history = all]
       [] outcome = "open_fails" -> d
       [] OTHER -> [d EXCEPT !.csv = Truncated]

\* lines 76-81: df.to_csv, then self.bills_history = df
SaveHistory(d, df, outcome) ==
  CASE outcome = "ok" ->
         [d EXCEPT !.csv = FileOf(CsvRoundTrip(df)), !.bills_history = df]
    [] outcome = "open_fails" -> d
    [] OTHER -> [d EXCEPT !.csv = Truncated]

\* train that creates the new forest before it looks at the columns
train_ReplaceBeforeColumnCheck(d, bills_list, pklOutcome, csvOutcome) ==
  IF bills_list = <<>>
  THEN [d |-> d, status |-> "returned", stage |-> "rejected"]
  ELSE IF Rejected(bills_list)
  THEN [d |-> ReplaceModel(d), status |-> "returned", stage |-> "rejected"]
  ELSE LET df == TrainFrame(bills_list)
           training_data == TrainingData(df)
           d1 == ReplaceModel(d)
       IN IF FitRaises(training_data)
          THEN [d |-> d1, status |-> "raised", stage |-> "fit"]
          ELSE [d |-> SaveHistory(
                        DumpModel(FitModel(d1, training_data), pklOutcome),
                        df, csvOutcome),
                status |-> "returned", stage |-> "saved"]

\* the whole of train: [d |-> the detector after the call, status |->
\* "returned" or "raised", stage |-> how far the call got]
train(d, bills_list, pklOutcome, csvOutcome) ==
  IF Rejected(bills_list)
  THEN [d |-> d, status |-> "returned", stage |-> "rejected"]
  ELSE LET df == TrainFrame(bills_list)
           training_data == TrainingData(df)
           d1 == ReplaceModel(d)
       IN IF FitRaises(training_data)
          THEN [d |-> d1, status |-> "raised", stage |-> "fit"]
          ELSE [d |-> SaveHistory(
                        DumpModel(FitModel(d1, training_data), pklOutcome),
                        df, csvOutcome),
                status |-> "returned", stage |-> "saved"]

(***************************************************************************)
(* __init__ of a new process: load the two artifacts if they exist.        *)
(* readable: the file can be opened and decoded; a truncated file never    *)
(* decodes.  Both loads are inside try/except.                             *)
(***************************************************************************)
\* LoadModel that never finds the artifact
LoadModel_NeverLoads(file, readable) == NoModel

LoadModel(file, readable) ==
  IF file[1] = "ok" /\ readable THEN file[2] ELSE NoModel

LoadHistory(file, readable) ==
  IF file[1] = "ok" /\ readable THEN file[2] ELSE EmptyFrame

init(d, pklReadable, csvReadable) ==
  [d EXCEPT !.model = LoadModel(d.pkl, pklReadable),
            !.bills_history = LoadHistory(d.csv, csvReadable)]

(***************************************************************************)
(* The record of a completed call.                                         *)
(***************************************************************************)
NoBill == Bill(Absent, Absent, Absent, Absent, Absent, Absent)

NoCall ==
  [op |-> "none", thread |-> "", status |-> "returned", stage |-> "",
   bills_list |-> <<>>, pkl_write |-> "", csv_write |-> "",
   pkl_readable |-> FALSE, csv_readable |-> FALSE,
   bill |-> NoBill, all_bills |-> <<>>, tick |-> 0,
   report |-> NoReport, bill_after |-> NoBill, all_bills_after |-> <<>>,
   observable |-> {}]

\* a JSON object without any key
NoAnswer == [k \in SchemaKeys |-> Absent]

\* the server between two requests.  path: temp_file_path is set; created:
\* the temporary files the request has created; events: the calls of the
\* request to the detector, the storage and the notifier, in their order
NoRequest ==
  [pc |-> "idle", n |-> 0, endpoint |-> "", path |-> FALSE, created |-> {},
   bill |-> NoAnswer, id |-> 0, all_bills |-> <<>>, report |-> NoReport,
   message |-> "", requests |-> 0, fallback |-> FALSE, events |-> <<>>,
   success |-> FALSE]

Event(op, ok, id, report) ==
  [op |-> op, ok |-> ok, id |-> id, report |-> report]

Idle == [pc |-> "idle", bills_list |-> <<>>, bill |-> NoBill,
         all_bills |-> <<>>, m94 |-> NoModel, m99 |-> NoModel,
         observable |-> {}]

\* the forest a train call of this list installs when nothing interferes
ForestOf(bills_list) ==
  Fitted(ForestData(TrainingData(TrainFrame(bills_list))))

\* the threads that are inside train, past the validation of the list
Training == {t \in Threads : th[t].pc \in {"replace", "fit", "dump", "csv"}}

\* the threads between the replacement of the model and the end of train
InCriticalSection == {t \in Threads : th[t].pc \in {"fit", "dump", "csv"}}

Checking == {t \in Threads : th[t].pc \in {"predict", "score"}}

Init ==
  /\ model = NoModel
  /\ bills_history = EmptyFrame
  /\ pkl = NoFile
  /\ csv = NoFile
  /\ tick = 1
  /\ forest \in ForestBehaviours
  /\ last = NoCall
  /\ th = [t \in Threads |-> Idle]
  /\ saved = NoModel
  /\ complete = NoModel
  /\ sheet = <<>>
  /\ outbox = <<>>
  /\ disk = {}
  /\ rq = NoRequest

SetDetector(d) ==
  /\ model' = d.model
  /\ complete' = IF d.model = Unfitted THEN complete ELSE d.model
  /\ bills_history' = d.bills_history
  /\ pkl' = d.pkl
  /\ csv' = d.csv

AllIdle == \A t \in Threads : th[t].pc = "idle"

(***************************************************************************)
(* The calls, one at a time: every call runs to completion.                *)
(***************************************************************************)
Train(bills_list, pklOutcome, csvOutcome) ==
  \E r \in {train(Detector, bills_list, pklOutcome, csvOutcome)} :
  LET reached == r.stage = "saved"
  IN /\ AllIdle
     /\ SetDetector(r.d)
     /\ saved' = IF reached /\ pklOutcome = "ok"
                 THEN ForestOf(bills_list) ELSE saved
     /\ last' = [NoCall EXCEPT !.op = "train", !.status = r.status,
                               !.stage = r.stage, !.bills_list = bills_list,
                               !.pkl_write = IF reached THEN pklOutcome ELSE "",
                               !.csv_write = IF reached THEN csvOutcome ELSE ""]
     /\ UNCHANGED <<tick, forest, th>>
     /\ UNCHANGED pipelineVars

\* FullCheck that fits the forest again on the bill it has scored
FullCheck_LearnsFromBill(bill, all_bills) ==
  \E r \in {full_check(model, model, model, forest, bill, all_bills,
                      ClockAt(tick))} :
  LET amount == Get(bill, "total_amount", PyInt(0))
      tax == Get(bill, "tax_amount", PyInt(0))
  IN /\ AllIdle
     /\ last' = [NoCall EXCEPT !.op = "full_check", !.status = r.status,
                               !.bill = bill, !.all_bills = all_bills,
                               !.tick = tick, !.report = r.report,
                               !.bill_after = r.bill,
                               !.all_bills_after = r.all_bills,
                               !.observable = {complete}]
     /\ model' = IF IsInt(amount) /\ IsInt(tax)
                 THEN Fitted(<< <<amount[2], tax[2]>> >>) ELSE model
     /\ UNCHANGED <<bills_history, pkl, csv, tick, forest, th, saved,
                    complete>>
     /\ UNCHANGED pipelineVars

FullCheck(bill, all_bills) ==
  \E r \in {full_check(model, model, model, forest, bill, all_bills,
                      ClockAt(tick))} :
     /\ AllIdle
     /\ last' = [NoCall EXCEPT !.op = "full_check", !.status = r.status,
                               !.bill = bill, !.all_bills = all_bills,
                               !.tick = tick, !.report = r.report,
                               !.bill_after = r.bill,
                               !.all_bills_after = r.all_bills,
                               !.observable = {complete}]
     /\ UNCHANGED <<model, bills_history, pkl, csv, tick, forest, th, saved,
                    complete>>
     /\ UNCHANGED pipelineVars

\* the process ends and a new one starts: detector = BillAnomalyDetector()
Restart(pklReadable, csvReadable) ==
  /\ AllIdle
  /\ SetDetector(init(Detector, pklReadable, csvReadable))
  /\ last' = [NoCall EXCEPT !.op = "init",
                            !.pkl_readable = pklReadable,
                            !.csv_readable = csvReadable]
  /\ UNCHANGED <<tick, forest, th, saved>>
  /\ UNCHANGED pipelineVars

\* time passes
Tick ==
  /\ tick < MaxTicks
  /\ tick' = tick + 1
  /\ UNCHANGED <<model, bills_history, pkl, csv, forest, last, th, saved,
                 complete>>
  /\ UNCHANGED pipelineVars

\* scoring: every bill and history, trainings whose writes succeed
Next ==
  \/ \E bills_list \in TrainLists : Train(bills_list, "ok", "ok")
  \/ \E bill \in Bills, all_bills \in Histories : FullCheck(bill, all_bills)
  \/ Tick

Spec == Init /\ [][Next]_vars

\* the life of the model: trainings with every outcome of the two writes,
\* process restarts, and a few bills to probe the active model
NextLife ==
  \/ \E bills_list \in TrainLists, pklOutcome, csvOutcome \in WriteOutcomes :
        Train(bills_list, pklOutcome, csvOutcome)
  \/ \E pklReadable, csvReadable \in BOOLEAN :
        Restart(pklReadable, csvReadable)
  \/ \E bill \in ProbeBills, all_bills \in Histories :
        FullCheck(bill, all_bills)

SpecLife == Init /\ [][NextLife]_vars


(***************************************************************************)
(* The calls as the threads of the server run them: the detector has no    *)
(* lock, so that the statements of two calls interleave.  A step is one    *)
(* statement that reads or writes the detector; pc names the statement a   *)
(* thread executes next.                                                   *)
(***************************************************************************)
\* train, lines 46-60: validation and the frame, all local
TrainCall(t, bills_list) ==
  /\ th[t].pc = "idle"
  /\ IF Rejected(bills_list)
     THEN /\ last' = [NoCall EXCEPT !.op = "train", !.thread = t,
                                    !.stage = "rejected",
                                    !.bills_list = bills_list]
          /\ th' = th
     ELSE /\ th' = [u \in Threads |->
                      IF u = t
                      THEN [Idle EXCEPT !.pc = "replace",
                                        !.bills_list = bills_list]
                      ELSE IF u \in Checking
                      THEN [th[u] EXCEPT !.observable =
                              @ \cup {ForestOf(bills_list)}]
                      ELSE th[u]]
          /\ last' = last
  /\ UNCHANGED <<model, bills_history, pkl, csv, tick, forest, saved,
                 complete>>
  /\ UNCHANGED pipelineVars

\* train, lines 62-66
TrainReplace(t) ==
  /\ th[t].pc = "replace"
  /\ SetDetector(ReplaceModel(Detector))
  /\ th' = [th EXCEPT ![t].pc = "fit"]
  /\ UNCHANGED <<tick, forest, last, saved>>
  /\ UNCHANGED pipelineVars

\* train, line 67
TrainFit(t) ==
  LET training_data == TrainingData(TrainFrame(th[t].bills_list))
  IN /\ th[t].pc = "fit"
     /\ IF FitRaises(training_data)
        THEN /\ th' = [th EXCEPT ![t] = Idle]
             /\ last' = [NoCall EXCEPT !.op = "train", !.thread = t,
                                       !.status = "raised", !.stage = "fit",
                                       !.bills_list = th[t].bills_list]
             /\ UNCHANGED <<model, bills_history, pkl, csv, complete>>
        ELSE /\ SetDetector(FitModel(Detector, training_data))
             /\ th' = [th EXCEPT ![t].pc = "dump"]
             /\ last' = last
     /\ UNCHANGED <<tick, forest, saved>>
     /\ UNCHANGED pipelineVars

\* train, lines 69-74
TrainDump(t, outcome) ==
  /\ th[t].pc = "dump"
  /\ SetDetector(DumpModel(Detector, outcome))
  /\ saved' = IF outcome = "ok" THEN ForestOf(th[t].bills_list) ELSE saved
  /\ th' = [th EXCEPT ![t].pc = "csv"]
  /\ UNCHANGED <<tick, forest, last>>
  /\ UNCHANGED pipelineVars

\* train, lines 76-81
TrainSave(t, outcome) ==
  /\ th[t].pc = "csv"
  /\ SetDetector(SaveHistory(Detector, TrainFrame(th[t].bills_list), outcome))
  /\ th' = [th EXCEPT ![t] = Idle]
  /\ last' = [NoCall EXCEPT !.op = "train", !.thread = t, !.stage = "saved",
                            !.bills_list = th[t].bills_list,
                            !.csv_write = outcome]
  /\ UNCHANGED <<tick, forest, saved>>
  /\ UNCHANGED pipelineVars

\* full_check up to line 94 of check_ml_anomaly: the first read of the model
CheckCall(t, bill, all_bills) ==
  /\ th[t].pc = "idle"
  /\ th' = [th EXCEPT ![t] =
              [Idle EXCEPT !.pc = "predict", !.bill = bill,
                           !.all_bills = all_bills, !.m94 = model,
                           !.observable =
                             {complete} \cup
                             {ForestOf(th[u].bills_list) : u \in Training}]]
  /\ UNCHANGED <<model, bills_history, pkl, csv, tick, forest, last, saved,
                 complete>>
  /\ UNCHANGED pipelineVars

\* line 99: self.model.predict
CheckPredict(t) ==
  /\ th[t].pc = "predict"
  /\ th' = [th EXCEPT ![t].pc = "score", ![t].m99 = model]
  /\ UNCHANGED <<model, bills_history, pkl, csv, tick, forest, last, saved,
                 complete>>
  /\ UNCHANGED pipelineVars

\* line 100: self.model.score_samples, and the rest of full_check
CheckScore(t) ==
  \E r \in {full_check(th[t].m94, th[t].m99, model, forest, th[t].bill,
                       th[t].all_bills, ClockAt(tick))} :
     /\ th[t].pc = "score"
     /\ th' = [th EXCEPT ![t] = Idle]
     /\ last' = [NoCall EXCEPT !.op = "full_check", !.thread = t,
                               !.status = r.status, !.bill = th[t].bill,
                               !.all_bills = th[t].all_bills, !.tick = tick,
                               !.report = r.report, !.bill_after = r.bill,
                               !.all_bills_after = r.all_bills,
                               !.observable = th[t].observable]
     /\ UNCHANGED <<model, bills_history, pkl, csv, tick, forest, saved,
                    complete>>
     /\ UNCHANGED pipelineVars

NextThreads ==
  \E t \in Threads :
     \/ \E bills_list \in {CorpusA, CorpusB} : TrainCall(t, bills_list)
     \/ TrainReplace(t)
     \/ TrainFit(t)
     \/ TrainDump(t, "ok")
     \/ TrainSave(t, "ok")
     \/ \E bill \in ProbeBills : CheckCall(t, bill, <<>>)
     \/ CheckPredict(t)
     \/ CheckScore(t)

SpecThreads == Init /\ [][NextThreads]_vars


(***************************************************************************)
(* The rule engine and the duplicate detector on their own.  The call is   *)
(* drawn at the start of the run and one step executes it; the record of   *)
(* the call keeps its arguments and what it returned.                      *)
(***************************************************************************)
\* a due date that is over at every instant of the clock
DuePast == <<"2", "0", "2", "3", "-", "1", "2", "-", "0", "1">>

\* the bills check_rules is called with: every rule on both sides of its
\* threshold, amounts for which total_amount * 0.35 is and is not exact,
\* keys that are missing, null, empty or of another type
RuleBills ==
  { Bill(total, tax, vendor, invoice, due, Absent) :
      total \in {Absent, PyNone, PyInt(-5), PyInt(0), PyInt(100), PyInt(180),
                 PyInt(50000), PyInt(50001)},
      tax \in {Absent, PyNone, PyInt(35), PyInt(63), PyInt(64)},
      vendor \in {Absent, PyNone, PyStr(<<>>), PyStr(<<" ">>),
                  PyStr(<<"A", "c">>)},
      invoice \in {Absent, PyNone, PyStr(<<>>), PyStr(<<"7">>)},
      due \in {Absent, PyNone, PyStr(<<>>), PyStr(DuePast), PyStr(DueSoon),
               PyStr(BadDate), PyInt(20240101)} }

AcmeInc == <<"A", "c", "m", "e", " ", "I", "n", "c">>
AcmeIncBlanks == <<" ", " ", "a", "c", "m", "e", " ", "i", "n", "c", " ">>

Date2 == <<"2", "0", "2", "4", "-", "0", "1", "-", "0", "6">>

\* the candidates of check_duplicate
DupBills ==
  { Bill(total, Absent, vendor, Absent, Absent, date) :
      total \in {Absent, PyNone, PyInt(100)},
      vendor \in {Absent, PyNone, PyStr(<<>>), PyStr(<<" ", " ">>),
                  PyStr(AcmeInc), PyStr(AcmeIncBlanks)},
      date \in {Absent, PyStr(<<>>), PyStr(Date1), PyStr(Date2)} }

\* the records of the histories of check_duplicate
DupRecords ==
  { Bill(total, Absent, vendor, Absent, Absent, date) :
      total \in {PyNone, PyInt(0), PyInt(100)},
      vendor \in {PyNone, PyStr(AcmeInc), PyStr(AcmeIncBlanks)},
      date \in {Absent, PyStr(Date1)} }

\* histories of at most two records
DupHistories ==
  {<<>>} \cup {<<a>> : a \in DupRecords}
         \cup {<<a, b>> : a \in DupRecords, b \in DupRecords}

\* a call that has not run yet
Call(op, bill, all_bills) ==
  [NoCall EXCEPT !.op = "call", !.stage = op, !.bill = bill,
                 !.all_bills = all_bills]

\* the detector as it is constructed, and the call c about to be made
InitWith(c) ==
  /\ model = NoModel
  /\ bills_history = EmptyFrame
  /\ pkl = NoFile
  /\ csv = NoFile
  /\ tick = 1
  /\ forest \in ForestBehaviours
  /\ last = c
  /\ th = [t \in Threads |-> Idle]
  /\ saved = NoModel
  /\ complete = NoModel
  /\ sheet = <<>>
  /\ outbox = <<>>
  /\ disk = {}
  /\ rq = NoRequest

InitRules == \E bill \in RuleBills : InitWith(Call("check_rules", bill, <<>>))

CheckRules ==
  /\ last.op = "call"
  /\ last.stage = "check_rules"
  /\ \E r \in {check_rules(last.bill, ClockAt(tick))} :
        last' = [last EXCEPT
                   !.op = "check_rules", !.stage = "",
                   !.status = IF r.raised THEN "raised" ELSE "returned",
                   !.tick = tick,
                   !.report = [NoReport EXCEPT
                                 !.rule_violations = r.violations]]
  /\ UNCHANGED <<model, bills_history, pkl, csv, tick, forest, th, saved,
                 complete>>
  /\ UNCHANGED pipelineVars

NextRules == CheckRules \/ Tick

SpecRules == InitRules /\ [][NextRules]_vars

InitDuplicate ==
  \E bill \in DupBills, all_bills \in DupHistories :
     InitWith(Call("check_duplicate", bill, all_bills))

CheckDuplicate ==
  /\ last.op = "call"
  /\ last.stage = "check_duplicate"
  /\ \E r \in {check_duplicate(last.bill, last.all_bills)} :
        last' = [last EXCEPT
                   !.op = "check_duplicate", !.stage = "",
                   !.status = IF r.raised THEN "raised" ELSE "returned",
                   !.tick = tick,
                   !.report = [NoReport EXCEPT !.is_duplicate = r.dup]]
  /\ UNCHANGED <<model, bills_history, pkl, csv, tick, forest, th, saved,
                 complete>>
  /\ UNCHANGED pipelineVars

NextDuplicate == CheckDuplicate

SpecDuplicate == InitDuplicate /\ [][NextDuplicate]_vars

(***************************************************************************)
(* The self-test of the module (__main__): train on the four sample bills, *)
(* then check the test bill against them.  The runs also check the sample  *)
(* bills themselves and the bills that break three rules.                  *)
(***************************************************************************)
Store(letter) == PyStr(<<"S", "t", "o", "r", "e", " ", letter>>)

SampleDate(day) == PyStr(<<"2", "0", "2", "4", "-", "0", "1", "-", "0", day>>)

sample_bills ==
  << Bill(PyInt(100), PyInt(10), Store("A"), Absent, Absent, SampleDate("1")),
     Bill(PyInt(200), PyInt(20), Store("B"), Absent, Absent, SampleDate("2")),
     Bill(PyInt(150), PyInt(15), Store("C"), Absent, Absent, SampleDate("3")),
     Bill(PyInt(300), PyInt(30), Store("D"), Absent, Absent, SampleDate("4")) >>

test_bill ==
  Bill(PyInt(100000), PyInt(50), Store("E"), PyNone, PyStr(DuePast),
       SampleDate("5"))

\* total_amount 0, empty vendor_name, empty invoice_number, no due_date
CoverageBills ==
  { Bill(PyInt(0), tax, PyStr(<<>>), PyStr(<<>>), Absent, date) :
      tax \in {Absent, PyInt(50)}, date \in {Absent, SampleDate("1")} }

ScenarioBills ==
  {test_bill} \cup CoverageBills
              \cup {sample_bills[i] : i \in 1..Len(sample_bills)}

NextScenario ==
  \/ Train(sample_bills, "ok", "ok")
  \/ \E bill \in ScenarioBills, all_bills \in {<<>>, sample_bills} :
        FullCheck(bill, all_bills)
  \/ Tick

SpecScenario == Init /\ [][NextScenario]_vars


(***************************************************************************)
(* main.py: the two endpoints that process a bill.  The handlers are       *)
(* coroutines that call the OCR, the parser, the storage, the detector and *)
(* the notifier without awaiting, so that the server processes one request *)
(* at a time; a step is one call of a collaborator.  The detector of the   *)
(* server is never trained by the endpoints: it has the forest it loaded   *)
(* when the process started, if any.                                       *)
(***************************************************************************)
Answer(vendor, total, date, currency, line_items) ==
  [NoAnswer EXCEPT !["vendor_name"] = vendor, !["total_amount"] = total,
                   !["bill_date"] = date, !["currency"] = currency,
                   !["line_items"] = line_items]

AcmeAnswer ==
  Answer(PyStr(AcmeInc), PyInt(100), PyStr(Date1),
         PyStr(<<"u", "s", "d">>), Absent)

AcmeBlanksAnswer ==
  Answer(PyStr(AcmeIncBlanks), PyInt(100), PyStr(Date1),
         PyStr(<<"u", "s", "d">>), Absent)

LargeOverdueAnswer ==
  [Answer(PyStr(AcmeInc), PyInt(100000), PyStr(Date1),
          PyStr(<<"u", "s", "d">>), Absent)
     EXCEPT !["due_date"] = PyStr(DuePast),
            !["category"] = PyNone,
            !["payment_status"] = PyStr(<<"P", "a", "i", "d">>)]

NoVendorAnswer ==
  Answer(PyNone, PyInt(100), PyStr(Date1), PyStr(<<"u", "s", "d">>), Absent)

\* what the language model may answer
LlmResponses ==
  { LlmError,
    NotJson,
    Json(<<>>, FALSE),
    Json(AcmeAnswer, TRUE),
    Json(AcmeBlanksAnswer, FALSE),
    Json(LargeOverdueAnswer, FALSE),
    Json(Answer(Absent, Absent, PyStr(BadDate), Absent,
                PyList(<<[total |-> PyInt(120)]>>)), FALSE),
    Json(NoVendorAnswer, FALSE),
    Json(Answer(PyStr(AcmeInc), PyInt(100), PyStr(Date1), PyInt(840), Absent),
         FALSE) }

\* the answers the endpoints are exercised with
FirstAnswers ==
  { LlmError, Json(AcmeAnswer, TRUE), Json(AcmeBlanksAnswer, FALSE),
    Json(LargeOverdueAnswer, FALSE), Json(NoVendorAnswer, FALSE) }

SecondAnswers == { LlmError, Json(AcmeAnswer, FALSE) }

InitPipeline ==
  /\ model \in {NoModel, ForestOf(sample_bills)}
  /\ pkl = IF model = NoModel THEN NoFile ELSE FileOf(model)
  /\ saved = model
  /\ complete = model
  /\ bills_history = EmptyFrame
  /\ csv = NoFile
  /\ tick = 1
  /\ forest \in ForestBehaviours
  /\ model = NoModel => forest = CHOOSE f \in ForestBehaviours : TRUE
  /\ last = NoCall
  /\ th = [t \in Threads |-> Idle]
  /\ sheet = <<>>
  /\ outbox = <<>>
  /\ disk = {}
  /\ rq = NoRequest

DetectorUnchanged ==
  UNCHANGED <<model, bills_history, pkl, csv, tick, forest, last, th, saved,
              complete>>

\* a request arrives at /process-bill or /process-bill-base64
Receive(endpoint) ==
  /\ rq.pc \in {"idle", "done"}
  /\ rq.n < MaxRequests
  /\ rq' = [NoRequest EXCEPT !.pc = IF endpoint = "upload" THEN "upload"
                                    ELSE "decode",
                             !.n = rq.n + 1, !.endpoint = endpoint]
  /\ UNCHANGED <<sheet, outbox, disk>>
  /\ DetectorUnchanged

\* process_bill, lines 93-96: the temporary file is created, the upload is
\* read and written into it, and only then temp_file_path is assigned
Upload(outcome) ==
  /\ rq.pc = "upload"
  /\ disk' = IF outcome = "create_fails" THEN disk
             ELSE disk \cup {<<"upload", rq.n>>}
  /\ rq' = [rq EXCEPT !.pc = IF outcome = "ok" THEN "ocr" ELSE "finally",
                      !.path = (outcome = "ok"),
                      !.created = IF outcome = "create_fails" THEN {}
                                  ELSE {<<"upload", rq.n>>}]
  /\ UNCHANGED <<sheet, outbox>>
  /\ DetectorUnchanged

\* process_bill, lines 99-102: the text of the file, which must not be blank
Ocr(is_pdf, conversion, vision, tesseract, has_text) ==
  /\ rq.pc = "ocr"
  /\ \E r \in {extract_text(disk, "upload", rq.n, is_pdf, conversion, vision,
                            tesseract)} :
        /\ disk' = r.disk
        /\ rq' = [rq EXCEPT !.pc = IF r.status = "returned" /\ has_text
                                   THEN "parse" ELSE "finally",
                            !.created = @ \cup r.created]
  /\ UNCHANGED <<sheet, outbox>>
  /\ DetectorUnchanged

\* process_bill_base64, lines 159-162
DecodeAndOcr(decoding, vision, tesseract, has_text) ==
  /\ rq.pc = "decode"
  /\ \E r \in {base64_to_text(disk, rq.n, decoding, vision, tesseract)} :
        /\ disk' = r.disk
        /\ rq' = [rq EXCEPT !.pc = IF r.status = "returned" /\ has_text
                                   THEN "parse" ELSE "finally",
                            !.created = @ \cup r.created]
  /\ UNCHANGED <<sheet, outbox>>
  /\ DetectorUnchanged

\* lines 105 and 165: parser.parse_bill(raw_text)
Parse(configured, first, second) ==
  /\ rq.pc = "parse"
  /\ \E r \in {parse_bill(configured, TRUE, first, second)} :
        rq' = [rq EXCEPT !.pc = IF r.status = "returned" THEN "enrich"
                                ELSE "finally",
                         !.bill = IF r.status = "returned" THEN r.bill
                                  ELSE NoAnswer,
                         !.requests = r.requests,
                         !.fallback = r.fallback]
  /\ UNCHANGED <<sheet, outbox, disk>>
  /\ DetectorUnchanged

\* lines 108 and 168: parser.enrich_bill(bill_dict)
Enrich ==
  /\ rq.pc = "enrich"
  /\ \E r \in {enrich_bill(rq.bill, rq.n)} :
        rq' = [rq EXCEPT !.pc = IF r.status = "returned" THEN "history"
                                ELSE "finally",
                         !.bill = IF r.status = "returned" THEN r.bill ELSE @,
                         !.id = r.id]
  /\ UNCHANGED <<sheet, outbox, disk>>
  /\ DetectorUnchanged

\* lines 111 and 171: storage.get_all_bills()
History(outcome) ==
  /\ rq.pc = "history"
  /\ rq' = [rq EXCEPT !.pc = "check",
                      !.all_bills = get_all_bills(sheet, outcome),
                      !.events = Append(@, Event("get_all_bills", TRUE, rq.id,
                                                 NoReport))]
  /\ UNCHANGED <<sheet, outbox, disk>>
  /\ DetectorUnchanged

\* lines 114 and 174: detector.full_check(bill_dict, all_bills)
Check ==
  /\ rq.pc = "check"
  /\ \E r \in {full_check(model, model, model, forest, AsBill(rq.bill),
                          [i \in 1..Len(rq.all_bills) |->
                             AsBill(rq.all_bills[i])], ClockAt(tick))} :
        rq' = [rq EXCEPT !.pc = IF r.status = "returned" THEN "save"
                                ELSE "finally",
                         !.report = r.report,
                         !.events = Append(@, Event("full_check",
                                                    r.status = "returned",
                                                    rq.id, r.report))]
  /\ UNCHANGED <<sheet, outbox, disk>>
  /\ DetectorUnchanged

\* a handler that may save the bill without having checked it
Save_Unchecked(outcome) ==
  /\ rq.pc \in {"check", "save"}
  /\ sheet' = IF outcome = "ok" THEN Append(sheet, RowOf(rq.bill, rq.id))
              ELSE sheet
  /\ rq' = [rq EXCEPT !.pc = IF outcome = "ok" THEN "notify" ELSE "finally",
                      !.events = Append(@, Event("save_bill", outcome = "ok",
                                                 rq.id, rq.report))]
  /\ UNCHANGED <<outbox, disk>>
  /\ DetectorUnchanged

\* lines 117 and 177: storage.save_bill raises when the row is not appended
Save(outcome) ==
  /\ rq.pc = "save"
  /\ sheet' = IF outcome = "ok" THEN Append(sheet, RowOf(rq.bill, rq.id))
              ELSE sheet
  /\ rq' = [rq EXCEPT !.pc = IF outcome = "ok" THEN "notify" ELSE "finally",
                      !.events = Append(@, Event("save_bill", outcome = "ok",
                                                 rq.id, rq.report))]
  /\ UNCHANGED <<outbox, disk>>
  /\ DetectorUnchanged

\* lines 122 and 182: send_telegram_notification formats the message when
\* the bot is configured and posts it; a failure is logged.  The handler
\* then returns success.
Notify(configured, outcome) ==
  /\ rq.pc = "notify"
  /\ outbox' = IF configured /\ outcome = "ok"
               THEN Append(outbox,
                           [kind |-> MessageKind(rq.report.risk_score),
                            id |-> rq.id, report |-> rq.report])
               ELSE outbox
  /\ rq' = [rq EXCEPT
              !.pc = "finally", !.success = TRUE,
              !.message = IF configured
                          THEN MessageKind(rq.report.risk_score) ELSE "",
              !.events =
                IF configured
                THEN Append(@, Event("notify", outcome = "ok", rq.id,
                                     rq.report))
                ELSE @]
  /\ UNCHANGED <<sheet, disk>>
  /\ DetectorUnchanged

\* the handler returns; process_bill unlinks temp_file_path in finally
\* (lines 137-140)
Complete ==
  /\ rq.pc = "finally"
  /\ disk' = IF rq.path THEN disk \ {<<"upload", rq.n>>} ELSE disk
  /\ rq' = [rq EXCEPT !.pc = "done"]
  /\ UNCHANGED <<sheet, outbox>>
  /\ DetectorUnchanged

NextPipeline ==
  \/ \E endpoint \in {"upload", "base64"} : Receive(endpoint)
  \/ \E outcome \in {"ok", "create_fails", "read_fails", "write_fails"} :
        Upload(outcome)
  \/ \E is_pdf, has_text \in BOOLEAN,
        conversion, vision, tesseract \in {"ok", "fails"} :
        Ocr(is_pdf, conversion, vision, tesseract, has_text)
  \/ \E decoding \in {"ok", "decode_fails", "write_fails"},
        vision, tesseract \in {"ok", "fails"}, has_text \in BOOLEAN :
        DecodeAndOcr(decoding, vision, tesseract, has_text)
  \/ \E configured \in BOOLEAN, first \in FirstAnswers,
        second \in SecondAnswers :
        Parse(configured, first, second)
  \/ Enrich
  \/ \E outcome \in {"ok", "fails"} : History(outcome)
  \/ Check
  \/ \E outcome \in {"ok", "fails"} : Save(outcome)
  \/ \E configured \in BOOLEAN, outcome \in {"ok", "fails"} :
        Notify(configured, outcome)
  \/ Complete

SpecPipeline == InitPipeline /\ [][NextPipeline]_vars


(***************************************************************************)
(* parse_bill on its own: one call for every configuration, text and pair  *)
(* of answers of the language model.                                       *)
(***************************************************************************)
InitParse ==
  /\ model = NoModel
  /\ pkl = NoFile
  /\ saved = NoModel
  /\ complete = NoModel
  /\ bills_history = EmptyFrame
  /\ csv = NoFile
  /\ tick = 1
  /\ forest = CHOOSE f \in ForestBehaviours : TRUE
  /\ last = NoCall
  /\ th = [t \in Threads |-> Idle]
  /\ sheet = <<>>
  /\ outbox = <<>>
  /\ disk = {}
  /\ \E configured, has_text \in BOOLEAN, first, second \in LlmResponses :
        rq = [pc |-> "parse_bill", configured |-> configured,
              has_text |-> has_text, first |-> first, second |-> second,
              result |-> parse_bill(FALSE, FALSE, LlmError, LlmError)]

ParseBill ==
  /\ rq.pc = "parse_bill"
  /\ rq' = [rq EXCEPT !.pc = "parsed",
                      !.result = parse_bill(rq.configured, rq.has_text,
                                            rq.first, rq.second)]
  /\ UNCHANGED <<sheet, outbox, disk>>
  /\ DetectorUnchanged

NextParse == ParseBill

SpecParse == InitParse /\ [][NextParse]_vars


(***************************************************************************)
(* send_telegram_notification on the reports of full_check: bills on both  *)
(* sides of every threshold of the risk score, with and without a          *)
(* duplicate in the history, checked with and without a model.             *)
(***************************************************************************)
NotifiedBills ==
  { Bill(total, Absent, PyStr(AcmeInc), invoice, due, PyStr(Date1)) :
      total \in {PyInt(100), PyInt(100000)},
      invoice \in {Absent, PyStr(<<"7">>)},
      due \in {Absent, PyStr(DuePast)} }

NotifiedHistories ==
  { <<>>,
    <<Bill(PyInt(100), Absent, PyStr(AcmeIncBlanks), Absent, Absent,
           PyStr(Date1))>> }

\* full_check has returned the report the notifier is about to be called
\* with
InitNotify ==
  /\ model \in {NoModel, ForestOf(sample_bills)}
  /\ pkl = IF model = NoModel THEN NoFile ELSE FileOf(model)
  /\ saved = model
  /\ complete = model
  /\ bills_history = EmptyFrame
  /\ csv = NoFile
  /\ tick = 1
  /\ forest \in ForestBehaviours
  /\ model = NoModel => forest = CHOOSE f \in ForestBehaviours : TRUE
  /\ th = [t \in Threads |-> Idle]
  /\ sheet = <<>>
  /\ outbox = <<>>
  /\ disk = {}
  /\ \E bill \in NotifiedBills, all_bills \in NotifiedHistories :
        \E r \in {full_check(model, model, model, forest, bill, all_bills,
                             ClockAt(tick))} :
           /\ r.status = "returned"
           /\ last = [NoCall EXCEPT !.op = "full_check",
                                    !.status = r.status, !.bill = bill,
                                    !.all_bills = all_bills, !.tick = tick,
                                    !.report = r.report]
           /\ rq = [NoRequest EXCEPT !.pc = "notify", !.n = 1, !.id = 1,
                                     !.report = r.report]

NextNotify ==
  \E configured \in BOOLEAN, outcome \in {"ok", "fails"} :
     Notify(configured, outcome)

SpecNotify == InitNotify /\ [][NextNotify]_vars


(***************************************************************************)
(* Properties.                                                             *)
(***************************************************************************)
Reported == last.op = "full_check" /\ last.status = "returned"

\* the ML part of a report
MlOf(report) ==
  [is_anomaly |-> report.is_anomaly, confidence |-> report.ml_confidence]

\* the features full_check computes from a bill (lines 204-205)
AmountOf(bill) == Get(bill, "total_amount", PyInt(0))

TaxOf(bill) ==
  IF Truthy(Get(bill, "tax_amount", PyInt(0)))
  THEN Get(bill, "tax_amount", PyInt(0)) ELSE PyInt(0)

\* C1: in every report full_check returns, risk_score is
\* min(100, 40*[is_anomaly] + min(20*len(rule_violations), 40)
\* + 30*[is_duplicate]) of the same report, and lies in 0..100.
C1_RiskScore ==
  Reported =>
    LET r == last.report
    IN /\ r.risk_score =
            Min(100, (IF r.is_anomaly THEN 40 ELSE 0)
                     + Min(20 * Len(r.rule_violations), 40)
                     + (IF r.is_duplicate THEN 30 ELSE 0))
       /\ r.risk_score \in 0..100

\* an anomalous duplicate with two violations or more: 110 capped to 100
C1_Witness ==
  /\ Reported
  /\ last.report.is_anomaly
  /\ last.report.is_duplicate
  /\ Len(last.report.rule_violations) >= 2
  /\ last.report.risk_score = 100

\* C2: the recommendation of every report is approve iff risk_score < 30,
\* review iff 30 <= risk_score < 70, reject iff risk_score >= 70; the scores
\* 29, 30, 69, 70 map to approve, review, review, reject.
C2_Recommendation ==
  /\ Reported =>
       LET r == last.report
       IN /\ (r.recommendation = "approve") <=> (r.risk_score < 30)
          /\ (r.recommendation = "review") <=>
               (30 <= r.risk_score /\ r.risk_score < 70)
          /\ (r.recommendation = "reject") <=> (r.risk_score >= 70)
  /\ <<Recommendation(29), Recommendation(30), Recommendation(69),
       Recommendation(70)>> = <<"approve", "review", "review", "reject">>

\* a report on each side of the two thresholds has been seen: 30 and 70
C2_Witness ==
  /\ Reported
  /\ last.report.risk_score = 70
  /\ last.report.recommendation = "reject"
  /\ last.bill.total_amount = PyInt(100)

\* C3: full_check returns a report for every bill record, also when fields
\* are missing, null or of the wrong type; no error reaches the caller.
C3_AlwaysReturns == last.op = "full_check" => last.status = "returned"

\* C4: without a model, every report has is_anomaly = false and
\* ml_confidence = 0.0, whatever the bill and the history.
C4_NoModelNoVerdict ==
  (Reported /\ model = NoModel) =>
    /\ last.report.is_anomaly = FALSE
    /\ last.report.ml_confidence = 0

\* no model, and a bill of a high amount that duplicates a history record
C4_Witness ==
  /\ Reported
  /\ model = NoModel
  /\ complete = NoModel
  /\ last.bill.total_amount = PyInt(60000)
  /\ last.report.risk_score > 0

\* C5: a check that overlaps a train call gets the ML verdict of a complete
\* model, the one before the call or the one a train call in progress
\* installs, never that of a model that is not fitted or a mix of two.
C5_OldOrNewModel ==
  Reported =>
    MlOf(last.report) \in
      { check_ml_anomaly(m, m, m, forest, AmountOf(last.bill),
                         TaxOf(last.bill)) : m \in last.observable }

\* C6: the critical sections of two train calls never overlap, and when
\* the calls are over the active model, the persisted model and the
\* persisted corpus all come from the train call that finished last.
C6_SingleWriter ==
  /\ Cardinality(InCriticalSection) <= 1
  /\ (AllIdle /\ last.op = "train" /\ last.stage = "saved") =>
        /\ model = ForestOf(last.bills_list)
        /\ pkl = FileOf(model)
        /\ csv = FileOf(CsvRoundTrip(TrainFrame(last.bills_list)))

\* C7: a train call rejected for its input (empty list, no total_amount or
\* no tax_amount column) returns without raising and leaves the model, the
\* in-memory corpus and the two artifacts as they were.
C7_RejectedTrainIsNoOp ==
  [][(last'.op = "train" /\ last'.stage = "rejected") =>
       /\ last'.status = "returned"
       /\ UNCHANGED <<model, bills_history, pkl, csv>>]_vars

\* a list without one of the columns was rejected while a model was active
C7_Witness ==
  /\ last.op = "train"
  /\ last.stage = "rejected"
  /\ last.bills_list # <<>>
  /\ IsFitted(model)
  /\ pkl # NoFile

\* the train call recorded in c got past the fit and one of its writes failed
WriteFailed(c) ==
  /\ c.op = "train"
  /\ c.stage = "saved"
  /\ (c.pkl_write # "ok" \/ c.csv_write # "ok")

\* C8: when the write of the model or of the corpus fails, train returns
\* without raising, the forest it fitted is the active model, the next
\* check is answered by that forest, and checks answer from the active model
\* and leave it in place.
C8_WriteFailureKeepsModel ==
  [][/\ WriteFailed(last') =>
          /\ last'.status = "returned"
          /\ model' = ForestOf(last'.bills_list)
     /\ (WriteFailed(last) /\ last'.op = "full_check"
           /\ last'.status = "returned") =>
          MlOf(last'.report) =
            check_ml_anomaly(ForestOf(last.bills_list),
                             ForestOf(last.bills_list),
                             ForestOf(last.bills_list), forest,
                             AmountOf(last'.bill), TaxOf(last'.bill))
     /\ (last'.op = "full_check" /\ last'.status = "returned") =>
          /\ model' = model
          /\ MlOf(last'.report) =
               check_ml_anomaly(model, model, model, forest,
                                AmountOf(last'.bill), TaxOf(last'.bill))]_vars

\* the artifact was destroyed by a failed write and a check is answered
\* "anomalous" by the forest in memory
C8_Witness ==
  /\ pkl = Truncated
  /\ Reported
  /\ last.report.is_anomaly

\* C9: the detector starts with no model when there is no artifact; a
\* process start loads the forest of the last train call whose dump
\* succeeded; a train call replaces the model by the forest of its own
\* list; an artifact that cannot be loaded gives no model.
C9_ModelLifecycle ==
  [][/\ (last'.op = "init") =>
          /\ last'.status = "returned"
          /\ model' = IF pkl[1] = "ok" /\ last'.pkl_readable
                      THEN saved ELSE NoModel
     /\ (last'.op = "train" /\ last'.stage = "saved") =>
          /\ model' = ForestOf(last'.bills_list)
          /\ (last'.pkl_write = "ok") => pkl' = FileOf(model')]_vars

\* a process start loaded a forest that a train call had persisted
C9_Witness ==
  /\ last.op = "init"
  /\ IsFitted(model)
  /\ model = saved

\* C10: full_check changes neither the active model, the in-memory corpus
\* and the two artifacts, nor the bill and the history it is given.
C10_FullCheckHasNoSideEffect ==
  [][(last'.op = "full_check") =>
       /\ UNCHANGED <<model, bills_history, pkl, csv>>
       /\ last'.bill_after = last'.bill
       /\ last'.all_bills_after = last'.all_bills]_vars

\* a check with a fitted model, a null tax_amount and a scanned history
C10_Witness ==
  /\ Reported
  /\ IsFitted(model)
  /\ last.bill.tax_amount = PyNone
  /\ last.all_bills # <<>>
  /\ csv # NoFile

\* the call of check_rules or of check_duplicate on record has returned
Returned(op) == last.op = op /\ last.status = "returned"

\* C11: check_rules returns exactly the labels of the rules the bill
\* violates, each once, in the order high amount (> 50000), tax above 35% of
\* a positive total (null tax is 0), overdue (due_date parses and lies before
\* now), vendor missing or blank, invalid amount (<= 0), invoice missing,
\* null or empty; every rule is evaluated whatever the others give.
C11_ExactViolations ==
  Returned("check_rules") =>
    LET bill == last.bill
        now == ClockAt(last.tick)
        total == AmountOf(bill)[2]
        tax == TaxOf(bill)[2]
        due == Strptime(bill.due_date)
        Violated(label) ==
          CASE label = "Amount unusually high" -> total > 50000
            [] label = "Tax exceeds 35% of total" ->
                 total > 0 /\ tax * 100 > total * 35
            [] label = "Bill is overdue" ->
                 due.ok /\ DateTimeLess(due.at, now)
            [] label = "Vendor name missing" ->
                 \/ bill.vendor_name \in {Absent, PyNone}
                 \/ Strip(bill.vendor_name[3]) = <<>>
            [] label = "Invalid amount" -> total <= 0
            [] label = "Missing invoice number" ->
                 bill.invoice_number \in {Absent, PyNone, PyStr(<<>>)}
    IN last.report.rule_violations =
         SelectSeq(<<"Amount unusually high", "Tax exceeds 35% of total",
                     "Bill is overdue", "Vendor name missing",
                     "Invalid amount", "Missing invoice number">>, Violated)

\* C18: a due_date that is present and does not parse as YYYY-MM-DD gives
\* the outcome of the same bill without due_date: no 'Bill is overdue', no
\* error of its own, every other rule evaluated.
C18_UnparsableDueDateIsSkipped ==
  (last.op = "check_rules" /\ Truthy(last.bill.due_date)
     /\ ~Strptime(last.bill.due_date).ok) =>
    LET without ==
          check_rules([last.bill EXCEPT !["due_date"] = Absent],
                      ClockAt(last.tick))
    IN /\ (last.status = "raised") <=> without.raised
       /\ last.report.rule_violations = without.violations
       /\ \A i \in 1..Len(last.report.rule_violations) :
             last.report.rule_violations[i] # "Bill is overdue"

\* month 13: the rules after the due_date block have been evaluated
C18_Witness ==
  /\ Returned("check_rules")
  /\ last.bill.due_date = PyStr(BadDate)
  /\ last.report.rule_violations =
       <<"Amount unusually high", "Vendor name missing",
         "Missing invoice number">>

\* what the violations add to the risk score of a report that is not capped
PenaltyIn(report) ==
  report.risk_score - (IF report.is_anomaly THEN 40 ELSE 0)
                    - (IF report.is_duplicate THEN 30 ELSE 0)

\* C12 as stated: a bill with exactly three violations (total_amount 0,
\* empty vendor_name, empty invoice_number, no due_date) has 60 added to its
\* risk score by the violations.
C12_ThreeViolationsAddSixty ==
  (Reported /\ last.bill \in CoverageBills) =>
    /\ Len(last.report.rule_violations) = 3
    /\ PenaltyIn(last.report) = 60

\* C12, amended: the three violations add min(3*20, 40) = 40 to the risk
\* score, which is 40, or 80 when the forest flags the bill.
C12_ThreeViolationsAddForty ==
  (Reported /\ last.bill \in CoverageBills) =>
    /\ last.report.rule_violations =
         <<"Vendor name missing", "Invalid amount", "Missing invoice number">>
    /\ ~last.report.is_duplicate
    /\ PenaltyIn(last.report) = 40
    /\ last.report.risk_score = IF last.report.is_anomaly THEN 80 ELSE 40

\* the bill with three violations scored without a model: 40, review
C12_Witness ==
  /\ Reported
  /\ last.bill \in CoverageBills
  /\ last.report.risk_score = 40
  /\ last.report.recommendation = "review"

\* the self-test: the forest of the four sample bills is active and the
\* test bill has been checked against the four sample bills
SelfTest ==
  /\ Reported
  /\ model = ForestOf(sample_bills)
  /\ last.bill = test_bill
  /\ last.all_bills = sample_bills

SameCallAgain ==
  /\ last.op = "full_check" /\ last.status = "returned"
  /\ last'.op = "full_check" /\ last'.status = "returned"
  /\ last'.bill = last.bill
  /\ last'.all_bills = last.all_bills

HasOverdue(report) ==
  \E i \in 1..Len(report.rule_violations) :
     report.rule_violations[i] = "Bill is overdue"

WithoutOverdue(report) ==
  LET Other(label) == label # "Bill is overdue"
  IN SelectSeq(report.rule_violations, Other)

\* C14 as stated: two calls of full_check with the same bill and history
\* and no train in between return the same report, whenever they are made.
C14_SameCallSameReport ==
  [][SameCallAgain => last'.report = last.report]_vars

\* C14, amended: the two reports have the same ML verdict and confidence,
\* the same duplicate verdict and the same violations apart from 'Bill is
\* overdue', which depends on the time of the call; they are identical
\* when the due date is over for both calls or for neither.
C14_SameCallSameReportButOverdue ==
  [][SameCallAgain =>
       /\ last'.report.is_anomaly = last.report.is_anomaly
       /\ last'.report.ml_confidence = last.report.ml_confidence
       /\ last'.report.is_duplicate = last.report.is_duplicate
       /\ WithoutOverdue(last'.report) = WithoutOverdue(last.report)
       /\ (HasOverdue(last'.report) <=> HasOverdue(last.report)) =>
             last'.report = last.report]_vars

\* a check made after the due date of the bill has passed, with a fitted
\* forest
C14_Witness ==
  /\ Reported
  /\ IsFitted(model)
  /\ last.tick = 2
  /\ last.bill.due_date = PyStr(DueSoon)
  /\ HasOverdue(last.report)

\* the ML inference of the check on record fails: the model is an object
\* that is not fitted, or a feature is not a number
InferenceFails ==
  /\ last.op = "full_check"
  /\ model # NoModel
  /\ \/ ~IsFitted(model)
     \/ ~IsInt(AmountOf(last.bill))
     \/ ~IsInt(TaxOf(last.bill))

\* C19: when a model is present and the inference fails, full_check still
\* returns a report, with is_anomaly false, ml_confidence 0 and no ML
\* contribution in the risk score.
C19_InferenceFailureStillReports ==
  InferenceFails =>
    /\ last.status = "returned"
    /\ last.report.is_anomaly = FALSE
    /\ last.report.ml_confidence = 0
    /\ last.report.risk_score =
         Min(100, Min(20 * Len(last.report.rule_violations), 40)
                  + (IF last.report.is_duplicate THEN 30 ELSE 0))

\* the vendor name of a record, trimmed and in lower case; empty when the
\* record has no vendor name
Normalized(rec) ==
  IF IsStr(rec.vendor_name) THEN Lower(Strip(rec.vendor_name[3])) ELSE <<>>

\* the record has the vendor (normalized), the amount (a missing amount is
\* 0) and the raw bill_date of the candidate
SameBill(rec, bill) ==
  /\ Normalized(rec) = Normalized(bill)
  /\ Get(rec, "total_amount", PyInt(0)) = Get(bill, "total_amount", PyInt(0))
  /\ rec.bill_date = bill.bill_date

C16_DuplicateNeverRaises ==
  last.op = "check_duplicate" =>
    /\ last.status = "returned"
    /\ (\E k \in {"vendor_name", "total_amount", "bill_date"} :
           last.bill[k] \in {Absent, PyNone}) => ~last.report.is_duplicate

\* C17: two bills whose vendor names differ only in letter case and in the
\* blanks around them, with the same amount and the same bill_date that is
\* not empty, are duplicates of each other: whichever is the candidate and
\* whichever the history, check_duplicate gives true.
C17_DuplicateIsSymmetric ==
  (/\ last.op = "check_duplicate"
   /\ Len(last.all_bills) = 1
   /\ IsStr(last.bill.vendor_name)
   /\ IsStr(last.all_bills[1].vendor_name)
   /\ Lower(Strip(last.bill.vendor_name[3])) =
        Lower(Strip(last.all_bills[1].vendor_name[3]))
   /\ Strip(last.bill.vendor_name[3]) # <<>>
   /\ last.bill.total_amount = last.all_bills[1].total_amount
   /\ last.bill.bill_date = last.all_bills[1].bill_date
   /\ Truthy(last.bill.bill_date)) =>
    /\ last.status = "returned"
    /\ last.report.is_duplicate

\* '  acme inc ' checked against a history that holds 'Acme Inc'
C17_Witness ==
  /\ Returned("check_duplicate")
  /\ last.bill.vendor_name = PyStr(AcmeIncBlanks)
  /\ last.all_bills =
       <<[last.bill EXCEPT !["vendor_name"] = PyStr(AcmeInc)]>>
  /\ last.bill.total_amount = PyInt(100)
  /\ last.report.is_duplicate

\* C20: after a train call that fits and writes the corpus, the corpus in
\* memory and the corpus in the file are the records of the list of the
\* call, in its order, with a null tax_amount replaced by 0, whatever the
\* corpus was before: the corpus is not accumulated.
C20_CorpusIsTheList ==
  [][(last'.op = "train" /\ last'.stage = "saved"
        /\ last'.csv_write = "ok") =>
       LET bills_list == last'.bills_list
       IN /\ Len(bills_history'.rows) = Len(bills_list)
          /\ \A i \in 1..Len(bills_list) : \A k \in Fields :
                bills_history'.rows[i][k] =
                  IF k = "tax_amount" /\ bills_list[i][k] = PyNone
                  THEN PyInt(0) ELSE bills_list[i][k]
          /\ csv' = FileOf(bills_history')]_vars

\* a train call on CorpusB has written the corpus after an earlier call on
\* CorpusA, whose forest is still in the model file: the corpus is the one
\* record of CorpusB
C20_Witness ==
  /\ last.op = "train"
  /\ last.stage = "saved"
  /\ last.csv_write = "ok"
  /\ last.pkl_write = "open_fails"
  /\ last.bills_list = CorpusB
  /\ pkl = FileOf(ForestOf(CorpusA))
  /\ Len(bills_history.rows) = 1
  /\ csv = FileOf(bills_history)

\* C21: the ml_confidence of every report lies in 0..100, whatever the raw
\* score of the forest: it is the absolute raw score (times 100), clamped
\* below at 0 and above at 100.
C21_ConfidenceInRange ==
  Reported =>
    /\ last.report.ml_confidence \in 0..100
    /\ (IsFitted(model) /\ IsInt(AmountOf(last.bill))
          /\ IsInt(TaxOf(last.bill))) =>
         LET score == ScoreSamples(forest, model[2],
                                   <<AmountOf(last.bill)[2],
                                     TaxOf(last.bill)[2]>>)
         IN last.report.ml_confidence =
              IF Abs(score) > 100 THEN 100 ELSE Abs(score)

\* a raw score beyond -1.0 has been clamped to a confidence of 100
C21_Witness ==
  /\ Reported
  /\ IsFitted(model)
  /\ forest.outl < -100
  /\ last.report.is_anomaly
  /\ last.report.ml_confidence = 100


\* an answer that the attempt can use: the request succeeded and the content
\* is the JSON text of an object
Usable(response) == response.kind = "json" /\ response.value # <<>>

OptionalDefaults ==
  [vendor_address |-> PyNone, due_date |-> PyNone, invoice_number |-> PyNone,
   subtotal |-> PyNone, tax_amount |-> PyNone, discount_amount |-> PyNone,
   payment_method |-> PyNone,
   category |-> PyStr(<<"o", "t", "h", "e", "r">>),
   line_items |-> PyList(<<>>),
   payment_status |-> PyStr(<<"u", "n", "k", "n", "o", "w", "n">>)]

\* C23: parse_bill makes at most two requests; the second one exactly when
\* the first attempt failed; when the second attempt fails too the call
\* raises; a record the fallback returns has every optional field, with the
\* default value unless the answer supplied one.
C23_AtMostTwoRequests ==
  rq.pc = "parsed" =>
    /\ rq.result.requests \in 0..2
    /\ rq.result.requests = 2 <=>
         (rq.configured /\ rq.has_text /\ ~Usable(rq.first))
    /\ rq.result.fallback <=> rq.result.requests = 2
    /\ (rq.result.requests = 2 /\ ~Usable(rq.second)) =>
         rq.result.status = "raised"
    /\ (rq.result.requests = 2 /\ Usable(rq.second)) =>
         /\ rq.result.status = "returned"
         /\ \A k \in DOMAIN OptionalDefaults :
              rq.result.bill[k] = IF rq.second.value[k] = Absent
                                  THEN OptionalDefaults[k]
                                  ELSE rq.second.value[k]

C23_Witness ==
  /\ rq.pc = "parsed"
  /\ rq.first = NotJson
  /\ rq.second = Json(LargeOverdueAnswer, FALSE)
  /\ rq.result.status = "returned"
  /\ rq.result.requests = 2
  /\ rq.result.bill["category"] = PyNone
  /\ rq.result.bill["invoice_number"] = PyNone
  /\ rq.result.bill["line_items"] = PyList(<<>>)

Before(i, op) ==
  \E j \in 1..(i - 1) :
     /\ rq.events[j].op = op
     /\ rq.events[j].ok
     /\ rq.events[j].id = rq.events[i].id
     /\ rq.events[j].report = rq.events[i].report

Stored(id) == \E i \in 1..Len(sheet) : sheet[i]["ID"] = PyInt(id)

\* C22: in both endpoints save_bill is called only after full_check returned
\* the report of that bill and after the history was fetched, the
\* notification is sent only after save_bill succeeded, both carry that
\* report, and the fetched history never has the row of the bill itself.
C22_FlaggedBeforeStored ==
  /\ \A i \in 1..Len(rq.events) :
        /\ rq.events[i].op = "save_bill" =>
             /\ Before(i, "full_check")
             /\ \E j \in 1..(i - 1) : rq.events[j].op = "get_all_bills"
             /\ rq.events[i].report = rq.report
        /\ rq.events[i].op = "notify" => Before(i, "save_bill")
  /\ \A i \in 1..Len(rq.all_bills) : rq.all_bills[i]["ID"] # PyInt(rq.id)
  /\ \A i \in 1..Len(outbox) :
        /\ Stored(outbox[i].id)
        /\ outbox[i].id = rq.id => outbox[i].report = rq.report

C22_Witness ==
  /\ rq.pc = "done"
  /\ rq.endpoint = "base64"
  /\ rq.success
  /\ rq.all_bills # <<>>
  /\ Stored(rq.id)
  /\ \E i \in 1..Len(outbox) : outbox[i].id = rq.id

\* a record of the fetched history that has the vendor (normalized), the
\* amount and the date of the bill in its columns
SameStoredBill(record, bill) ==
  /\ IsStr(record["Vendor"])
  /\ Lower(Strip(record["Vendor"][3])) = Normalized(bill)
  /\ record["Total Amount"] = bill.total_amount
  /\ record["Bill Date"] = bill.bill_date

\* C24: when process_bill checks a bill with a vendor name and a bill_date
\* and the history fetched from the storage has a bill with the same
\* normalized vendor, total_amount and bill_date, the report says
\* is_duplicate.
C24_StoredBillIsDuplicate ==
  \A i \in 1..Len(rq.events) :
     (/\ rq.endpoint = "upload"
      /\ rq.events[i].op = "full_check"
      /\ rq.events[i].ok
      /\ Normalized(AsBill(rq.bill)) # <<>>
      /\ IsStr(rq.bill["bill_date"])
      /\ rq.bill["bill_date"][3] # <<>>
      /\ \E j \in 1..Len(rq.all_bills) :
            SameStoredBill(rq.all_bills[j], AsBill(rq.bill)))
       => rq.events[i].report.is_duplicate

\* C27: for a report of full_check the notifier formats the high-risk
\* message exactly when the recommendation is 'reject', that is when the
\* risk score is at least 70, and the success message exactly when it is
\* 'approve' or 'review'; the message that is posted is the one formatted.
C27_AlertIffReject ==
  /\ rq.message # "" =>
       /\ rq.report = last.report
       /\ rq.message = "high_risk" <=> rq.report.recommendation = "reject"
       /\ rq.message = "success" <=>
            rq.report.recommendation \in {"approve", "review"}
       /\ rq.message = "high_risk" <=> rq.report.risk_score >= 70
  /\ \A i \in 1..Len(outbox) :
        outbox[i].kind = "high_risk" <=>
          outbox[i].report.recommendation = "reject"

\* two violations and a duplicate: the score is exactly 70
C27_Witness ==
  /\ outbox # <<>>
  /\ rq.message = "high_risk"
  /\ rq.report.risk_score = 70
  /\ rq.report.is_duplicate
  /\ rq.report.recommendation = "reject"

\* C28: when process_bill has completed, with success or after a failure
\* at any step, no temporary file created for the request exists.
C28_NoTemporaryFileLeft ==
  (rq.endpoint = "upload" /\ rq.pc = "done") => rq.created \cap disk = {}

FitFailed(c) == c.op = "train" /\ c.status = "raised" /\ c.stage = "fit"

\* C25: a train call that fails while fitting leaves the active model as
\* it was: check_ml_anomaly gives every bill the verdict and the confidence
\* it gave before the call.
C25_FailedFitKeepsModel ==
  [][FitFailed(last') =>
       \A bill \in ProbeBills :
          check_ml_anomaly(model', model', model', forest,
                           AmountOf(bill), TaxOf(bill))
            = check_ml_anomaly(model, model, model, forest,
                               AmountOf(bill), TaxOf(bill))]_vars

\* C26: after a train call, whatever writes failed, the in-memory corpus is
\* the data the active model was fitted on, and the model file and the
\* corpus file come from one train call.
C26_ModelAndCorpusBelongTogether ==
  last.op = "train" =>
    /\ IsFitted(model) =>
         \E bills_list \in TrainLists :
            /\ model = ForestOf(bills_list)
            /\ bills_history \in {TrainFrame(bills_list),
                                  CsvRoundTrip(TrainFrame(bills_list))}
    /\ (pkl # NoFile \/ csv # NoFile) =>
         \E bills_list \in TrainLists :
            /\ pkl = FileOf(ForestOf(bills_list))
            /\ csv = FileOf(CsvRoundTrip(TrainFrame(bills_list)))
=============================================================================
